---- MODULE Spec2Model ----
(***************************************************************************)
(* A model of the k-mer core of wgs-kmers: k-mer enumeration               *)
(* (wgskmers/kmers.py), the dense/sparse vector codec, the k-mer set       *)
(* storage formats (wgskmers/database/store.py) and the similarity         *)
(* metrics (wgskmers/query.py).                                            *)
(*                                                                         *)
(* Sequences (python str / Bio.Seq) are TLA+ sequences of one-character    *)
(* strings; "N" stands for any symbol outside A, C, G, T.  Positions are   *)
(* 0-based as in the source; dense vectors are functions on 0..N-1.        *)
(***************************************************************************)
EXTENDS Integers, Sequences, FiniteSets, TLC

VARIABLES
    \* ---- KmerFinder / QualityKmerFinder object (kmers.py:203-219, 326-347)
    seq,            \* self.seq
    spec,           \* self.spec : KmerSpec record [k, prefix, plen, k_sfx, idx_len]
    find_revcomp,   \* self.find_revcomp
    seq_circular,   \* self.seq_circular
    quality,        \* self.quality  (list of PHRED scores, same length as seq)
    threshold,      \* self.threshold
    \* ---- arguments of kmer_index(kmer) and kmer_at_index(index, k)
    arg_kmer,
    arg_index,
    arg_k,
    \* ---- a k-mer set of a collection (database/store.py, database.py:472-565)
    vec,            \* the dense vector handed to the storage format
    kmer_set,       \* its KmerSet row: [dtype_str, has_counts]
    format,         \* collection.format: "raw" or "coords"
    file,           \* contents of gen-<genome_id>.npy
    \* ---- a query scored against a reference (query.py)
    query,          \* boolean query vector
    ref,            \* boolean reference vector
    \* ---- the score table handed to the match listing (commands/query.py)
    scores,         \* scores[j, :, i] of one query and one metric, one per reference
    \* ---- the genome area and the genome table of a Database (database.py)
    genome_files,   \* files under genomes/: file name -> "full" or "partial"
    genome_rows,    \* Genome.filename of every committed Genome row
    src_file,       \* the source path handed to store_genome: "present" or "absent"
    info_file,      \* the .kmer-db file of the directory: [exists, version]
    db,             \* the Database object the caller holds: "Database" or "none"
    \* ---- a k-mer collection and the genomes it is built from
    \*      (database.py:522-565, commands/kmers.py)
    genomes,        \* Genome rows by id: [readable, records, is_assembled]
    set_files,      \* files gen-<genome_id>.npy of the collection: genome id -> file
    set_rows,       \* KmerSet rows of the collection: genome id -> row
    \* ---- a worker pool scoring a query against references (query.py:350-485)
    ref_sets,       \* the reference vectors, in the order of the score table
    metric_names,   \* the metrics scored: names of query_metrics
    progress,       \* whether the caller consumes the results (progress bar)
    tasks,          \* the tasks handed to the pool: [index, refs]
    next_task,      \* how many tasks the workers have taken from the queue
    workers,        \* per worker: [task, pos], task = 0 when it has none
    dest,           \* the shared score array: <<metric, ref, query>> -> score
    n_written,      \* how often each cell of dest has been written
    task_errors,    \* the tasks that raised: [task, error]
    \* ---- a stream of sequence records turned into one vector (parse.py:179-232)
    records,        \* the sequences of the records, in stream order
    c_threshold,    \* kwargs 'c_threshold': NoThreshold for None
    \* ---- the k-mer collections of a Database (database.py:320-343, 430-442)
    collection_rows,    \* KmerSetCollection rows: [title, directory]
    collection_dirs,    \* the directories under kmer_collections/
    \* ---- a call of store_genome in progress (database.py:158-293)
    frame,          \* its arguments and locals and the statement it is at (pc)
    \* ---- the results of pool.imap and the loop consuming them
    \*      (commands/kmers.py:167-185)
    results,        \* [cache: task -> result, index: results consumed, added, errors]
    \* ---- a call of DatabaseUpgrader.upgrade (database/upgrade.py:36-41)
    upgrader,       \* [pc, db_ver: version read, todo: versions left, ran: scripts called]
    \* ---- the last call made and what it returned
    call,
    ret

finderVars == <<seq, spec, find_revcomp, seq_circular, quality, threshold>>
indexVars == <<arg_kmer, arg_index, arg_k>>
storeVars == <<vec, kmer_set, format, file>>
queryVars == <<query, ref>>
rankVars == <<scores>>
genomeVars == <<genome_files, genome_rows, src_file>>
dbVars == <<info_file, db>>
collVars == <<genomes, set_files, set_rows>>
poolVars == <<ref_sets, metric_names, progress, tasks, next_task, workers, dest, n_written,
              task_errors>>
recordVars == <<records, c_threshold>>
collectionVars == <<collection_rows, collection_dirs>>
extraVars == <<poolVars, recordVars, collectionVars, frame, results, upgrader>>
otherVars == <<rankVars, genomeVars, dbVars, collVars, extraVars>>
vars == <<finderVars, indexVars, storeVars, queryVars, otherVars, call, ret>>

----------------------------------------------------------------------------
(* Bounds of the model *)
MaxSeqLen == 3          \* longest sequence searched by a KmerFinder
MaxReadLen == 3         \* longest read (sequence with PHRED scores)
MaxK == 3               \* largest k of a KmerSpec
MaxPLen == 1            \* longest prefix of a KmerSpec
MaxLow == 1             \* most positions of a read with a low PHRED score
MaxSfx == 3             \* longest k-mer suffix indexed and un-indexed
MaxStoreSfx == 1        \* longest suffix of a collection whose sets are stored
MaxNonzero == 2         \* most nonzero positions of a stored or scored vector
MaxCount == 2           \* largest count in a stored count vector
MaxRefs == 3            \* most reference sets in a score table
MaxLevel == 2           \* largest score in a score table
MaxGenomes == 2         \* most Genome rows in the catalog
VersionSpread == 1      \* how far a stored version lies from the current one

----------------------------------------------------------------------------
(* Generic helpers *)
Min(S) == CHOOSE x \in S : \A y \in S : x <= y
SeqsUpTo(S, n) == UNION {[1..m -> S] : m \in 0..n}
Range(s) == {s[i] : i \in 1..Len(s)}
Reverse(s) == [i \in 1..Len(s) |-> s[Len(s) + 1 - i]]

\* the elements of a set of integers in ascending order
RECURSIVE SortedSeq(_)
SortedSeq(S) == IF S = {} THEN <<>> ELSE <<Min(S)>> \o SortedSeq(S \ {Min(S)})

\* python slice s[a:b] for 0 <= a, 0 <= b (bounds clamp to the length)
PySlice(s, a, b) ==
    LET n == Len(s)
        lo == IF a > n THEN n ELSE a
        hi == IF b > n THEN n ELSE b
    IN  SubSeq(s, lo + 1, hi)

\* python slice s[-n:] for n >= 0 (s[-0:] is s[0:], the whole sequence)
PyLast(s, n) ==
    IF n = 0 THEN s
    ELSE IF n >= Len(s) THEN s ELSE SubSeq(s, Len(s) - n + 1, Len(s))

\* str.find(sub, start, end), start >= 0: lowest p >= start with
\* s[p:p+len(sub)] = sub lying inside s[start:end], else -1.  A negative
\* end counts from the end of s, as in every python slice.
PyFind(s, sub, start, end) ==
    LET n == Len(s)
        e0 == IF end < 0 THEN end + n ELSE end
        e == IF e0 < 0 THEN 0 ELSE IF e0 > n THEN n ELSE e0
        hits == {p \in start..(e - Len(sub)) : SubSeq(s, p + 1, p + Len(sub)) = sub}
    IN  IF hits = {} THEN -1 ELSE Min(hits)

----------------------------------------------------------------------------
(* kmers.py *)

\* kmers.py:24  nucleotides = sorted('ACGT')
nucleotides == <<"A", "C", "G", "T">>
NucleotideSet == Range(nucleotides)
Symbols == NucleotideSet \cup {"N"}

\* kmers.py:27
nucleotide_indices == [n \in NucleotideSet |-> CHOOSE i \in 0..3 : nucleotides[i + 1] = n]

\* Bio.Seq complement table, used through reverse_compliment
complement == [c \in Symbols |->
    CASE c = "A" -> "T" [] c = "T" -> "A" [] c = "C" -> "G" [] c = "G" -> "C" [] OTHER -> c]

\* reverse_compliment that reverses without complementing
reverse_only(s) == [i \in 1..Len(s) |-> s[Len(s) + 1 - i]]

\* kmers.py:30-42
reverse_compliment(s) == [i \in 1..Len(s) |-> complement[s[Len(s) + 1 - i]]]

\* kmers.py:45-59  (index <<= 2; index += nucleotide_indices[nuc])
RECURSIVE kmer_index_loop(_, _)
kmer_index_loop(index, kmer) ==
    IF kmer = <<>> THEN index
    ELSE kmer_index_loop(index * 4 + nucleotide_indices[Head(kmer)], Tail(kmer))

\* kmer_index with the accumulator started at 1
kmer_index_from_one(kmer) == kmer_index_loop(1, kmer)

kmer_index(kmer) == kmer_index_loop(0, kmer)

\* kmers.py:72-75  the loop building nucs_reversed
RECURSIVE nucs_reversed(_, _)
nucs_reversed(index, k) ==
    IF k = 0 THEN <<>>
    ELSE <<nucleotides[(index % 4) + 1]>> \o nucs_reversed(index \div 4, k - 1)

\* kmer_at_index without the final reversal
kmer_at_index_unreversed(index, k) == nucs_reversed(index, k)

\* kmers.py:62-76
kmer_at_index(index, k) == Reverse(nucs_reversed(index, k))

\* kmers.py:92-98  the while loop of locate_kmers from cursor `start`
RECURSIVE locate_loop(_, _, _, _)
locate_loop(s, k, prefix, start) ==
    LET end == Len(s) - k
        p == PyFind(s, prefix, start, end)
    IN  IF p >= 0 THEN <<p>> \o locate_loop(s, k, prefix, p + 1) ELSE <<>>

\* kmers.py:79-98
locate_kmers(s, k, prefix) == locate_loop(s, k, prefix, 0)

RECURSIVE Pow4(_)
Pow4(n) == IF n = 0 THEN 1 ELSE 4 * Pow4(n - 1)

\* kmers.py:152-162  KmerSpec.__init__
KmerSpec(k, prefix) ==
    [k |-> k, prefix |-> prefix, plen |-> Len(prefix),
     k_sfx |-> k - Len(prefix), idx_len |-> Pow4(k - Len(prefix))]

\* the suffixes cut out at the located positions: seq[loc + plen : loc + k]
Suffixes(s, sp, locs) ==
    [i \in 1..Len(locs) |-> PySlice(s, locs[i] + sp.plen, locs[i] + sp.k)]

\* kmers.py:314  wrap_seq = seq[-(k-1):] + seq[:(k-1)]
wrap(s, k) == PyLast(s, k - 1) \o PySlice(s, 0, k - 1)

\* kmers.py:298-316  KmerFinder._get_kmers
KmerFinder_get_kmers_strand(s0, sp, circular, revcomp) ==
    LET s == IF revcomp THEN reverse_compliment(s0) ELSE s0
        linear == Suffixes(s, sp, locate_kmers(s, sp.k, sp.prefix))
        wrap_seq == wrap(s, sp.k)
        wrapped == Suffixes(wrap_seq, sp, locate_kmers(wrap_seq, sp.k, sp.prefix))
    IN  IF circular THEN linear \o wrapped ELSE linear

\* kmers.py:221-235  KmerFinder.get_kmers
KmerFinder_get_kmers(s0, sp, revcomp, circular) ==
    KmerFinder_get_kmers_strand(s0, sp, circular, FALSE)
    \o (IF revcomp THEN KmerFinder_get_kmers_strand(s0, sp, circular, TRUE) ELSE <<>>)

\* kmers.py:243-245  keep the k-mers over ACGT only and index them
RECURSIVE indices_of(_)
indices_of(kmers) ==
    IF kmers = <<>> THEN <<>>
    ELSE (IF Range(Head(kmers)) \subseteq NucleotideSet
          THEN <<kmer_index(Head(kmers))>> ELSE <<>>) \o indices_of(Tail(kmers))

\* kmers.py:237-245  KmerFinder.get_indices
KmerFinder_get_indices(s0, sp, revcomp, circular) ==
    indices_of(KmerFinder_get_kmers(s0, sp, revcomp, circular))

----------------------------------------------------------------------------
(* QualityKmerFinder.  A generator that raises part-way is the record of   *)
(* the items it yielded before and the flag `raised`.                       *)

\* kmers.py:360-363 (and 372-375)  the loop over the located positions:
\*   s = slice(loc + plen, loc + k); if min(qual[s]) >= threshold: yield seq[s]
\* min() of an empty slice raises ValueError
RECURSIVE quality_scan(_, _, _, _, _)
quality_scan(s, qual, sp, locs, thr) ==
    IF locs = <<>> THEN [raised |-> FALSE, items |-> <<>>]
    ELSE LET lo == Head(locs) + sp.plen
             hi == Head(locs) + sp.k
             w == PySlice(qual, lo, hi)
         IN  IF w = <<>> THEN [raised |-> TRUE, items |-> <<>>]
             ELSE LET rest == quality_scan(s, qual, sp, Tail(locs), thr)
                      passes == Min(Range(w)) >= thr
                  IN  [raised |-> rest.raised,
                       items |-> (IF passes THEN <<PySlice(s, lo, hi)>> ELSE <<>>)
                                 \o rest.items]

\* kmers.py:349-375  QualityKmerFinder._get_kmers
QualityKmerFinder_get_kmers_strand(s0, qual0, thr, sp, circular, revcomp) ==
    LET s == IF revcomp THEN reverse_compliment(s0) ELSE s0
        qual == IF revcomp THEN Reverse(qual0) ELSE qual0
        linear == quality_scan(s, qual, sp, locate_kmers(s, sp.k, sp.prefix), thr)
        wrap_seq == wrap(s, sp.k)
        wrap_qual == wrap(qual, sp.k)
        wrapped == quality_scan(wrap_seq, wrap_qual, sp,
                                locate_kmers(wrap_seq, sp.k, sp.prefix), thr)
    IN  IF linear.raised \/ ~circular THEN linear
        ELSE [raised |-> wrapped.raised, items |-> linear.items \o wrapped.items]

\* kmers.py:221-235  get_kmers, inherited by QualityKmerFinder
QualityKmerFinder_get_kmers(s0, qual0, thr, sp, revcomp, circular) ==
    LET fwd == QualityKmerFinder_get_kmers_strand(s0, qual0, thr, sp, circular, FALSE)
        rev == QualityKmerFinder_get_kmers_strand(s0, qual0, thr, sp, circular, TRUE)
    IN  IF fwd.raised \/ ~revcomp THEN fwd
        ELSE [raised |-> rev.raised, items |-> fwd.items \o rev.items]

\* kmers.py:237-245  get_indices, inherited by QualityKmerFinder
QualityKmerFinder_get_indices(s0, qual0, thr, sp, revcomp, circular) ==
    LET kmers == QualityKmerFinder_get_kmers(s0, qual0, thr, sp, revcomp, circular)
    IN  [raised |-> kmers.raised, items |-> indices_of(kmers.items)]

----------------------------------------------------------------------------
(* numpy arrays.  A 1-d array is [dtype, ndim |-> 1, data |-> <<x0, x1, ..>>],  *)
(* a 2 x n array is [dtype, ndim |-> 2, data |-> <<row0, row1>>]; element i     *)
(* of a 1-d array a is a.data[i + 1].  A call that raises returns Raised(e).    *)
(* Integers of the model are far below 2^31, so a cast to int32 or int64        *)
(* keeps the value; a cast to uint16 wraps modulo 2^16.                         *)

Raised(e) == [dtype |-> e, ndim |-> 0, data |-> <<>>]

\* the value v of an array of dtype `from` stored into an array of dtype `to`
Cast(to, from, v) ==
    LET n == IF from = "bool" THEN (IF v THEN 1 ELSE 0) ELSE v
    IN  CASE to = "bool" -> n # 0
          [] to = "uint16" -> n % 65536
          [] OTHER -> n

\* np.zeros(n, dtype)
np_zeros(n, dtype) ==
    [dtype |-> dtype, ndim |-> 1, data |-> [i \in 1..n |-> Cast(dtype, "int64", 0)]]

\* np.nonzero(vec): the positions of the nonzero elements, ascending
RECURSIVE nonzero_from(_, _)
nonzero_from(a, i) ==
    IF i >= Len(a.data) THEN <<>>
    ELSE (IF Cast("bool", a.dtype, a.data[i + 1]) THEN <<i>> ELSE <<>>)
         \o nonzero_from(a, i + 1)

np_nonzero(a) == nonzero_from(a, 0)

\* vec_to_coords writing the coordinates into the counts row as well
vec_to_coords_coords_twice(v, counts, dtype) ==
    LET coords == np_nonzero(v)
        row0 == [j \in 1..Len(coords) |-> Cast(dtype, "int64", coords[j])]
    IN  IF counts THEN [dtype |-> dtype, ndim |-> 2, data |-> <<row0, row0>>]
        ELSE [dtype |-> dtype, ndim |-> 1, data |-> row0]

\* kmers.py:101-118  vec_to_coords(vec, counts, dtype) with out=None
vec_to_coords(v, counts, dtype) ==
    LET coords == np_nonzero(v)
        row0 == [j \in 1..Len(coords) |-> Cast(dtype, "int64", coords[j])]
        row1 == [j \in 1..Len(coords) |-> Cast(dtype, v.dtype, v.data[coords[j] + 1])]
    IN  IF counts THEN [dtype |-> dtype, ndim |-> 2, data |-> <<row0, row1>>]
        ELSE [dtype |-> dtype, ndim |-> 1, data |-> row0]

\* out[idx] = vals on a 1-d array of length n: a negative index counts from
\* the end, an index outside [-n, n) raises IndexError, the last write to a
\* position wins
index_assign(out, idx, vals, valdtype) ==
    LET n == Len(out.data)
        pos(j) == IF idx[j] < 0 THEN idx[j] + n ELSE idx[j]
        writes(i) == {j \in 1..Len(idx) : pos(j) = i}
        Max(S) == CHOOSE x \in S : \A y \in S : x >= y
    IN  IF \E j \in 1..Len(idx) : idx[j] >= n \/ idx[j] < 0 - n
        THEN Raised("IndexError")
        ELSE [out EXCEPT !.data =
                 [i \in 1..n |-> IF writes(i - 1) = {} THEN out.data[i]
                                 ELSE Cast(out.dtype, valdtype, vals[Max(writes(i - 1))])]]

\* kmers.py:121-133  coords_to_vec(array, has_counts, idx_len=, dtype=) with out=None
coords_to_vec(array, has_counts, idx_len, dtype) ==
    LET out == np_zeros(idx_len, dtype)
        flat == IF array.ndim = 2 THEN array.data[1] \o array.data[2] ELSE array.data
    IN  IF has_counts
        THEN (IF array.ndim = 2
              THEN index_assign(out, array.data[1], array.data[2], array.dtype)
              ELSE Raised("IndexError"))
        ELSE index_assign(out, flat, [j \in 1..Len(flat) |-> 1], "int64")

\* np.save / np.load: the .npy file keeps the element type, the shape and
\* the elements
NoFile == [descr |-> "absent", ndim |-> 0, body |-> <<>>]
np_save(a) == [descr |-> a.dtype, ndim |-> a.ndim, body |-> a.data]
np_load(f) == [dtype |-> f.descr, ndim |-> f.ndim, data |-> f.body]

----------------------------------------------------------------------------
(* database/store.py *)

\* an index type that stays np.int32 whatever the length of the index space
index_dtype_int32(sp) == "int32"

\* store.py:13  np.int64 if idx_len >= 2**32 else np.int32  (idx_len = 4^k_sfx)
index_dtype(sp) == IF sp.k_sfx >= 16 THEN "int64" ELSE "int32"

\* store.py:31-32
RawFormat_store(v, ks, sp) == np_save(v)

\* store.py:34-35
RawFormat_load(f, ks, sp) == np_load(f)

\* store.py:42-45
RawFormat_load_coords(f, ks, sp) ==
    vec_to_coords(np_load(f), ks.has_counts, index_dtype(sp))

\* store.py:51-55
CoordsFormat_store(v, ks, sp) ==
    np_save(vec_to_coords(v, ks.has_counts, index_dtype(sp)))

\* CoordsFormat.load rebuilding the vector as int64 instead of the row's dtype
CoordsFormat_load_int64(f, ks, sp) ==
    coords_to_vec(np_load(f), ks.has_counts, sp.idx_len, "int64")

\* store.py:57-61
CoordsFormat_load(f, ks, sp) ==
    coords_to_vec(np_load(f), ks.has_counts, sp.idx_len, ks.dtype_str)

\* store.py:66-67
CoordsFormat_load_coords(f, ks, sp) == np_load(f)

\* store.py:70-73  kmer_storage_formats[collection.format]
format_store(fmt, v, ks, sp) ==
    IF fmt = "raw" THEN RawFormat_store(v, ks, sp) ELSE CoordsFormat_store(v, ks, sp)

format_load(fmt, f, ks, sp) ==
    IF fmt = "raw" THEN RawFormat_load(f, ks, sp) ELSE CoordsFormat_load(f, ks, sp)

format_load_coords(fmt, f, ks, sp) ==
    IF fmt = "raw" THEN RawFormat_load_coords(f, ks, sp)
    ELSE CoordsFormat_load_coords(f, ks, sp)

\* database.py:472-477  KmerSetLoader.load
KmerSetLoader_load(fmt, f, ks, sp) == format_load(fmt, f, ks, sp)

\* database.py:493-509  KmerSetLoader.load_coords(kmer_set, counts)
\* (np.vstack called with two positional arguments raises TypeError)
KmerSetLoader_load_coords(fmt, f, ks, sp, counts) ==
    LET array == format_load_coords(fmt, f, ks, sp)
    IN  IF counts
        THEN (IF ks.has_counts THEN array ELSE Raised("TypeError"))
        ELSE (IF ks.has_counts
              THEN (IF array.ndim = 2
                    THEN [dtype |-> array.dtype, ndim |-> 1, data |-> array.data[1]]
                    ELSE Raised("IndexError"))
              ELSE array)

----------------------------------------------------------------------------
(* query.py: the similarity metrics.  A score is [kind, num, den]: an       *)
(* integer ("int"), a float given as the exact ratio num/den in lowest      *)
(* terms ("float"; rounding to 32 bits is left out), "nan", "inf", or the   *)
(* exception the call raised.                                               *)

Metrics == {"hamming", "jaccard", "asym_jacc"}

RECURSIVE GCD(_, _)
GCD(a, b) == IF b = 0 THEN a ELSE GCD(b, a % b)

IntScore(n) == [kind |-> "int", num |-> n, den |-> 1]
FloatScore(n, d) == [kind |-> "float", num |-> n \div GCD(n, d), den |-> d \div GCD(n, d)]

\* float division in a numba guvectorize kernel (numpy error model):
\* x/0 is inf or nan, nothing is raised
numpy_div(n, d) ==
    IF d # 0 THEN FloatScore(n, d)
    ELSE [kind |-> IF n = 0 THEN "nan" ELSE "inf", num |-> 0, den |-> 0]

\* float division in a numba jit(nopython=True) function (python error
\* model, the default): division by zero raises ZeroDivisionError
jit_div(n, d) ==
    IF d # 0 THEN FloatScore(n, d)
    ELSE [kind |-> "ZeroDivisionError", num |-> 0, den |-> 0]

B(x) == IF x THEN 1 ELSE 0

\* query.py:200-201  for i in range(n): dist += query[i] ^ ref[i]
RECURSIVE nb_hamming_loop(_, _, _, _)
nb_hamming_loop(q, r, i, dist) ==
    IF i >= Len(q) THEN dist
    ELSE nb_hamming_loop(q, r, i + 1, dist + B(q[i + 1] # r[i + 1]))

\* query.py:195-203
nb_hamming(q, r) == IntScore(nb_hamming_loop(q, r, 0, 0))

\* query.py:257-259
RECURSIVE nb_jaccard_loop(_, _, _, _, _)
nb_jaccard_loop(q, r, i, union, intersection) ==
    IF i >= Len(q) THEN [union |-> union, intersection |-> intersection]
    ELSE nb_jaccard_loop(q, r, i + 1, union + B(q[i + 1] \/ r[i + 1]),
                         intersection + B(q[i + 1] /\ r[i + 1]))

\* query.py:251-262
nb_jaccard(q, r) ==
    LET t == nb_jaccard_loop(q, r, 0, 0, 0)
    IN  numpy_div(t.intersection, t.union)

\* query.py:315-317
RECURSIVE nb_asym_jacc_loop(_, _, _, _, _)
nb_asym_jacc_loop(q, r, i, ref_weight, intersection) ==
    IF i >= Len(q) THEN [ref_weight |-> ref_weight, intersection |-> intersection]
    ELSE nb_asym_jacc_loop(q, r, i + 1, ref_weight + B(r[i + 1]),
                           intersection + B(q[i + 1] /\ r[i + 1]))

\* query.py:309-320
nb_asym_jacc(q, r) ==
    LET t == nb_asym_jacc_loop(q, r, 0, 0, 0)
    IN  numpy_div(t.intersection, t.ref_weight)

\* query.py:215-226 (274-284, 332-343)  the merge walk over two coordinate
\* arrays; diff counts the steps with q != r, same those with q = r, iters
\* all of them
RECURSIVE merge_walk(_, _, _, _, _, _, _)
merge_walk(q, r, i, j, diff, same, iters) ==
    IF ~(i < Len(q) /\ j < Len(r))
    THEN [i |-> i, j |-> j, diff |-> diff, same |-> same, iters |-> iters]
    ELSE LET qv == q[i + 1]
             rv == r[j + 1]
         IN  merge_walk(q, r,
                        IF qv <= rv THEN i + 1 ELSE i,
                        IF rv <= qv THEN j + 1 ELSE j,
                        IF qv # rv THEN diff + 1 ELSE diff,
                        IF qv = rv THEN same + 1 ELSE same,
                        iters + 1)

\* query.py:205-231
coords_hamming(q, r) ==
    LET w == merge_walk(q, r, 0, 0, 0, 0, 0)
        dist == w.diff + (Len(q) - w.i) + (Len(r) - w.j)
    IN  IntScore(dist)

\* query.py:264-289  union += 1 on every step
coords_jaccard(q, r) ==
    LET w == merge_walk(q, r, 0, 0, 0, 0, 0)
        union == w.iters + (Len(q) - w.i) + (Len(r) - w.j)
    IN  jit_div(Len(q) + Len(r) - union, union)

\* query.py:322-345
coords_asym_jacc(q, r) ==
    LET w == merge_walk(q, r, 0, 0, 0, 0, 0)
    IN  jit_div(w.same, Len(r))

\* query.py:191-193  (query != ref).sum(axis=-1)
py_hamming(q, r) == IntScore(Cardinality({i \in 1..Len(q) : q[i] # r[i]}))

\* query.py:236-249  out = sum(q & r); out /= sum(q | r), a numpy division
py_jaccard(q, r) ==
    numpy_div(Cardinality({i \in 1..Len(q) : q[i] /\ r[i]}),
              Cardinality({i \in 1..Len(q) : q[i] \/ r[i]}))

\* query.py:294-307  out = sum(q & r); out /= sum(r)
py_asym_jacc(q, r) ==
    numpy_div(Cardinality({i \in 1..Len(q) : q[i] /\ r[i]}),
              Cardinality({i \in 1..Len(r) : r[i]}))

\* QueryMetric._py_func (query.py:27, 50-51), on one query and one ref
metric_python(m, q, r) ==
    CASE m = "hamming" -> py_hamming(q.data, r.data)
      [] m = "jaccard" -> py_jaccard(q.data, r.data)
      [] m = "asym_jacc" -> py_asym_jacc(q.data, r.data)

\* QueryMetric._nb_array_funcs (query.py:108-139), on one query and one ref
metric_dense(m, q, r) ==
    CASE m = "hamming" -> nb_hamming(q.data, r.data)
      [] m = "jaccard" -> nb_jaccard(q.data, r.data)
      [] m = "asym_jacc" -> nb_asym_jacc(q.data, r.data)

\* QueryMetric.coords (query.py:66-68)
metric_coords(m, qc, rc) ==
    CASE m = "hamming" -> coords_hamming(qc.data, rc.data)
      [] m = "jaccard" -> coords_jaccard(qc.data, rc.data)
      [] m = "asym_jacc" -> coords_asym_jacc(qc.data, rc.data)

----------------------------------------------------------------------------
(* The finders under test *)

\* the KmerSpecs with 0 <= |prefix| < k (spec.md section 3), prefix over `alphabet`
SpecsOver(alphabet) ==
    UNION {{KmerSpec(k, prefix) :
              prefix \in SeqsUpTo(alphabet, IF MaxPLen < k THEN MaxPLen ELSE k - 1)} :
           k \in 1..MaxK}

ValidSpecs == SpecsOver(NucleotideSet)

\* reads and the prefixes searched in them are taken over A, T and a
\* non-nucleotide symbol (a set closed under complement)
ReadSymbols == {"A", "T", "N"}
ReadSpecs == SpecsOver({"A", "T"})

\* PHRED scores of a read: one below the threshold, one equal to it
PhredScores == [low |-> 10, pass |-> 20]

Qualities(n) ==
    {q \in [1..n -> {PhredScores.low, PhredScores.pass}] :
        Cardinality({i \in 1..n : q[i] = PhredScores.low}) <= MaxLow}

IdleFinder ==
    /\ seq = <<>>
    /\ spec = KmerSpec(1, <<>>)
    /\ find_revcomp = FALSE
    /\ seq_circular = FALSE
    /\ quality = <<>>
    /\ threshold = 0

IdleIndex ==
    /\ arg_kmer = <<>>
    /\ arg_index = 0
    /\ arg_k = 0

IdleStore ==
    /\ vec = Raised("none")
    /\ kmer_set = [dtype_str |-> "bool", has_counts |-> FALSE]
    /\ format = "raw"
    /\ file = NoFile

IdleQuery ==
    /\ query = Raised("none")
    /\ ref = Raised("none")

IdleRank == scores = <<>>

\* an empty genome area
NoFiles == <<>>

IdleGenomes ==
    /\ genome_files = NoFiles
    /\ genome_rows = {}
    /\ src_file = "present"

\* database.py:22
CURRENT_DB_VERSION == 5

\* database.py:387-390  the info file Database.create writes, and the
\* object it returns
IdleDb ==
    /\ info_file = [exists |-> TRUE, version |-> CURRENT_DB_VERSION]
    /\ db = "Database"

IdleColl ==
    /\ genomes = <<>>
    /\ set_files = <<>>
    /\ set_rows = <<>>

\* no query pool running
IdlePool ==
    /\ ref_sets = <<>>
    /\ metric_names = <<>>
    /\ progress = FALSE
    /\ tasks = <<>>
    /\ next_task = 0
    /\ workers = <<>>
    /\ dest = <<>>
    /\ n_written = <<>>
    /\ task_errors = {}

\* c_threshold=None
NoThreshold == -1

IdleRecords ==
    /\ records = <<>>
    /\ c_threshold = NoThreshold

\* no k-mer collection
IdleCollections ==
    /\ collection_rows = {}
    /\ collection_dirs = {}

\* the locals of store_genome at statement pc
Frame(kind, keep_src, same_format, name, src_moved, needs_delete, pc) ==
    [kind |-> kind, keep_src |-> keep_src, same_format |-> same_format, filename |-> name,
     src_moved |-> src_moved, needs_delete |-> needs_delete, pc |-> pc]

\* no call of store_genome in progress
NoFrame == Frame("path", TRUE, TRUE, [i |-> 0, gz |-> TRUE], FALSE, FALSE, "none")

IdleFrame == frame = NoFrame

\* no results iterator
NoResults == [cache |-> <<>>, index |-> 0, added |-> 0, errors |-> 0]

IdleResults == results = NoResults

\* upgrade has not been called
NoUpgrade == [pc |-> "none", db_ver |-> 0, todo |-> <<>>, ran |-> <<>>]

IdleUpgrader == upgrader = NoUpgrade

IdleExtra ==
    IdlePool /\ IdleRecords /\ IdleCollections /\ IdleFrame /\ IdleResults /\ IdleUpgrader

IdleOther == IdleRank /\ IdleGenomes /\ IdleDb /\ IdleColl /\ IdleExtra

\* A KmerFinder over a sequence without scores
InitKmers ==
    /\ seq \in SeqsUpTo(Symbols, MaxSeqLen)
    /\ spec \in ValidSpecs
    /\ find_revcomp \in BOOLEAN
    /\ seq_circular \in BOOLEAN
    /\ quality = <<>>
    /\ threshold = 0
    /\ IdleIndex /\ IdleStore /\ IdleQuery /\ IdleOther
    /\ call = "new"
    /\ ret = <<>>

\* A read with PHRED scores, searched by a KmerFinder and a QualityKmerFinder
InitQuality ==
    /\ seq \in SeqsUpTo(ReadSymbols, MaxReadLen)
    /\ spec \in ReadSpecs
    /\ find_revcomp \in BOOLEAN
    /\ seq_circular \in BOOLEAN
    /\ quality \in Qualities(Len(seq))
    /\ threshold = PhredScores.pass
    /\ IdleIndex /\ IdleStore /\ IdleQuery /\ IdleOther
    /\ call = "new"
    /\ ret = <<>>

LocateKmers ==
    /\ call' = "locate_kmers"
    /\ ret' = locate_kmers(seq, spec.k, spec.prefix)
    /\ UNCHANGED <<finderVars, indexVars, storeVars, queryVars, otherVars>>

GetKmers ==
    /\ call' = "get_kmers"
    /\ ret' = KmerFinder_get_kmers(seq, spec, find_revcomp, seq_circular)
    /\ UNCHANGED <<finderVars, indexVars, storeVars, queryVars, otherVars>>

GetIndices ==
    /\ call' = "get_indices"
    /\ ret' = KmerFinder_get_indices(seq, spec, find_revcomp, seq_circular)
    /\ UNCHANGED <<finderVars, indexVars, storeVars, queryVars, otherVars>>

QualityGetKmers ==
    /\ call' = "quality_get_kmers"
    /\ ret' = QualityKmerFinder_get_kmers(seq, quality, threshold, spec,
                                          find_revcomp, seq_circular)
    /\ UNCHANGED <<finderVars, indexVars, storeVars, queryVars, otherVars>>

QualityGetIndices ==
    /\ call' = "quality_get_indices"
    /\ ret' = QualityKmerFinder_get_indices(seq, quality, threshold, spec,
                                            find_revcomp, seq_circular)
    /\ UNCHANGED <<finderVars, indexVars, storeVars, queryVars, otherVars>>

NextKmers == LocateKmers \/ GetKmers \/ GetIndices
NextQuality == GetIndices \/ QualityGetKmers \/ QualityGetIndices

SpecKmers == InitKmers /\ [][NextKmers]_vars
SpecQuality == InitQuality /\ [][NextQuality]_vars

----------------------------------------------------------------------------
(* kmer_index and kmer_at_index applied to their arguments *)

InitIndex ==
    /\ IdleFinder /\ IdleStore /\ IdleQuery /\ IdleOther
    /\ arg_kmer \in SeqsUpTo(NucleotideSet, MaxSfx)
    /\ arg_k \in 0..MaxSfx
    /\ arg_index \in 0..(Pow4(arg_k) - 1)
    /\ call = "new"
    /\ ret = <<>>

KmerIndex ==
    /\ call' = "kmer_index"
    /\ ret' = kmer_index(arg_kmer)
    /\ UNCHANGED <<finderVars, indexVars, storeVars, queryVars, otherVars>>

KmerAtIndex ==
    /\ call' = "kmer_at_index"
    /\ ret' = kmer_at_index(arg_index, arg_k)
    /\ UNCHANGED <<finderVars, indexVars, storeVars, queryVars, otherVars>>

NextIndex == KmerIndex \/ KmerAtIndex
SpecIndex == InitIndex /\ [][NextIndex]_vars

----------------------------------------------------------------------------
(* A k-mer set stored in, and loaded from, a collection *)

Supports(n) == {S \in SUBSET (0..(n - 1)) : Cardinality(S) <= MaxNonzero}

BoolVecs(n) ==
    {[dtype |-> "bool", ndim |-> 1, data |-> [i \in 1..n |-> (i - 1) \in S]] :
        S \in Supports(n)}

CountVecs(n) ==
    UNION {{[dtype |-> "uint16", ndim |-> 1,
             data |-> [i \in 1..n |-> IF (i - 1) \in S THEN c[i - 1] ELSE 0]] :
               c \in [S -> 1..MaxCount]} : S \in Supports(n)}

\* collections with prefix "A" and a suffix of 1..MaxStoreSfx letters
StoreSpecs == {KmerSpec(s + 1, <<"A">>) : s \in 1..MaxStoreSfx}

\* commands/kmers.py:33-45,175: a boolean vector without counts for an
\* assembled genome, a uint16 count vector with has_counts otherwise;
\* database.py:543  dtype_str = str(vec.dtype)
InitStore ==
    /\ spec \in StoreSpecs
    /\ seq = <<>> /\ find_revcomp = FALSE /\ seq_circular = FALSE
    /\ quality = <<>> /\ threshold = 0
    /\ IdleIndex /\ IdleQuery /\ IdleOther
    /\ vec \in BoolVecs(spec.idx_len) \cup CountVecs(spec.idx_len)
    /\ \E hc \in BOOLEAN :
          /\ vec.dtype = "uint16" => hc
          /\ kmer_set = [dtype_str |-> vec.dtype, has_counts |-> hc]
    /\ format \in {"raw", "coords"}
    /\ file = NoFile
    /\ call = "new"
    /\ ret = <<>>

\* database.py:549-551  with open(store_path, 'wb') as fh: format.store(fh, vec, kmer_set)
FormatStore ==
    /\ file' = format_store(format, vec, kmer_set, spec)
    /\ call' = "store"
    /\ ret' = <<>>
    /\ UNCHANGED <<finderVars, indexVars, queryVars, otherVars, vec, kmer_set, format>>

\* database.py:472-477
LoaderLoad ==
    /\ file # NoFile
    /\ call' = "load"
    /\ ret' = KmerSetLoader_load(format, file, kmer_set, spec)
    /\ UNCHANGED <<finderVars, indexVars, queryVars, storeVars, otherVars>>

\* database.py:493-509
LoaderLoadCoords ==
    /\ file # NoFile
    /\ \E counts \in BOOLEAN :
          /\ call' = "load_coords"
          /\ ret' = [counts |-> counts,
                     array |-> KmerSetLoader_load_coords(format, file, kmer_set, spec, counts)]
    /\ UNCHANGED <<finderVars, indexVars, queryVars, storeVars, otherVars>>

\* vec_to_coords on the vector, with the flag of its row and the default dtype
VecToCoords ==
    /\ call' = "vec_to_coords"
    /\ ret' = vec_to_coords(vec, kmer_set.has_counts, "int64")
    /\ UNCHANGED <<finderVars, indexVars, queryVars, storeVars, otherVars>>

\* coords_to_vec on what vec_to_coords returned
CoordsToVec ==
    /\ call = "vec_to_coords"
    /\ call' = "coords_to_vec"
    /\ ret' = coords_to_vec(ret, kmer_set.has_counts, Len(vec.data), vec.dtype)
    /\ UNCHANGED <<finderVars, indexVars, queryVars, storeVars, otherVars>>

NextStore == FormatStore \/ LoaderLoad \/ LoaderLoadCoords \/ VecToCoords \/ CoordsToVec
SpecStore == InitStore /\ [][NextStore]_vars

----------------------------------------------------------------------------
(* One query scored against one reference, dense and sparse *)

\* the index space of the collection queried: k = 2, prefix "A"
QueryIdxLen == KmerSpec(2, <<"A">>).idx_len

InitQuery ==
    /\ IdleFinder /\ IdleIndex /\ IdleStore /\ IdleOther
    /\ query \in BoolVecs(QueryIdxLen)
    /\ ref \in BoolVecs(QueryIdxLen)
    /\ call = "new"
    /\ ret = <<>>

\* query.py:368-369  the compiled array function of a metric
ScoreDense(m) ==
    /\ call' = "dense"
    /\ ret' = [metric |-> m, score |-> metric_dense(m, query, ref)]
    /\ UNCHANGED <<finderVars, indexVars, storeVars, queryVars, otherVars>>

\* query.py:438-440, 463  metric.coords on the coordinates of both vectors
ScoreCoords(m) ==
    /\ call' = "coords"
    /\ ret' = [metric |-> m,
               score |-> metric_coords(m, vec_to_coords(query, FALSE, "int64"),
                                          vec_to_coords(ref, FALSE, "int64"))]
    /\ UNCHANGED <<finderVars, indexVars, storeVars, queryVars, otherVars>>

\* query.py:50-51, 62  metric(query, ref, target='python')
ScorePython(m) ==
    /\ call' = "python"
    /\ ret' = [metric |-> m, score |-> metric_python(m, query, ref)]
    /\ UNCHANGED <<finderVars, indexVars, storeVars, queryVars, otherVars>>

NextQuery == \E m \in Metrics : ScoreDense(m) \/ ScoreCoords(m) \/ ScorePython(m)
SpecQuery == InitQuery /\ [][NextQuery]_vars

----------------------------------------------------------------------------
(* The match listing of the query command (commands/query.py)               *)
(*                                                                          *)
(* A score table entry is a float32: a score record of kind "float" or      *)
(* "nan".  References are named by their position 0..m-1 in refs.           *)

NaN == [kind |-> "nan", num |-> 0, den |-> 0]

\* commands/query.py:35  -scores_slice
np_negative(a) == [i \in 1..Len(a) |-> IF a[i].kind = "nan" THEN a[i] ELSE [a[i] EXCEPT !.num = -a[i].num]]

\* the order numpy sorts floats in: ascending, NaN after every number
np_le(a, b) ==
    \/ b.kind = "nan"
    \/ a.kind # "nan" /\ a.num * b.den <= b.num * a.den

\* np.argsort(a) with the default kind, which is not a stable sort: any
\* ordering of the positions in which the values ascend
np_argsort(a) ==
    {p \in [1..Len(a) -> 0..(Len(a) - 1)] :
        /\ \A i, j \in 1..Len(a) : i # j => p[i] # p[j]
        /\ \A i \in 1..(Len(a) - 1) : np_le(a[p[i] + 1], a[p[i + 1] + 1])}

\* QueryMetric.is_distance (query.py:190, 235, 293)
is_distance(m) == m = "hamming"

\* the same without the reversal for similarity metrics
best_idx_of_ascending(m, a) == np_argsort(a)

\* commands/query.py:31-35
best_idx_of(m, a) == IF is_distance(m) THEN np_argsort(a) ELSE np_argsort(np_negative(a))

\* commands/query.py:37-44  one QueryMatch per entry of best_idx[:n]
QueryMatches(m, a, best_idx, n) ==
    LET top == PySlice(best_idx, 0, n)
    IN  [rank0 \in 1..Len(top) |->
            [ref |-> top[rank0], metric |-> m, rank |-> rank0 - 1, score |-> a[top[rank0] + 1]]]

\* commands/query.py:69-86  the rank, score and ref columns of the csv rows
CsvRows(matches) ==
    [r \in 1..Len(matches) |->
        [metric |-> matches[r].metric, rank |-> matches[r].rank + 1,
         score |-> matches[r].score, ref |-> matches[r].ref]]

ScoreValues == {FloatScore(l, 1) : l \in 0..MaxLevel} \cup {NaN}

InitRank ==
    /\ IdleFinder /\ IdleIndex /\ IdleStore /\ IdleQuery /\ IdleGenomes /\ IdleDb /\ IdleColl
    /\ IdleExtra
    /\ scores \in SeqsUpTo(ScoreValues, MaxRefs)
    /\ call = "new"
    /\ ret = <<>>

\* commands/query.py:21-45, as print_matches calls it: one query, one metric.
\* A listing leaves the score table as it is, so a second listing of the
\* same table reaches no state the first does not: one listing per table.
TopMatches(m, n) ==
    /\ call = "new"
    /\ call' = "top_matches"
    /\ \E best_idx \in best_idx_of(m, scores) :
          ret' = [metric |-> m, n |-> n, matches |-> QueryMatches(m, scores, best_idx, n)]
    /\ UNCHANGED <<finderVars, indexVars, storeVars, queryVars, scores, genomeVars, dbVars, collVars, extraVars>>

\* commands/query.py:48-96
MatchesToCsv(m, n) ==
    /\ call = "new"
    /\ call' = "matches_to_csv"
    /\ \E best_idx \in best_idx_of(m, scores) :
          ret' = [metric |-> m, n |-> n,
                  matches |-> CsvRows(QueryMatches(m, scores, best_idx, n))]
    /\ UNCHANGED <<finderVars, indexVars, storeVars, queryVars, scores, genomeVars, dbVars, collVars, extraVars>>

NextRank == \E m \in Metrics, n \in 0..(MaxRefs + 1) : TopMatches(m, n) \/ MatchesToCsv(m, n)
SpecRank == InitRank /\ [][NextRank]_vars

----------------------------------------------------------------------------
(* Database.store_genome (database/database.py:158-293)                     *)
(*                                                                          *)
(* A file name is [i, gz]: the base made from the description, the counter  *)
(* i appended when i > 0, and the extension, which ends in .gz for gzip.    *)
(* `fault` names the step at which an error is injected: "name" (the        *)
(* catalog query of the file name), "copy" (the copy, move or transcode),   *)
(* "commit" (session.commit), or "none".                                    *)

Compressions == {"none", "gzip"}
Faults == {"none", "name", "copy", "commit"}

\* database.py:408-428  the first file name no Genome row has
RECURSIVE make_genome_file_name(_, _, _)
make_genome_file_name(rows, gz, i) ==
    IF [i |-> i, gz |-> gz] \in rows THEN make_genome_file_name(rows, gz, i + 1)
    ELSE [i |-> i, gz |-> gz]

\* database.py:163-164  src_mode defaults to 'rb' if src_compression is given
src_mode_of(src_mode, src_compression) ==
    IF src_mode # "none" THEN src_mode
    ELSE IF src_compression # "none" THEN "rb" ELSE "none"

\* database.py:180-185  with no src_mode and a stream, src_fh is read before
\* it is assigned
write_mode_raises(kind, mode) == mode = "none" /\ kind = "stream"

\* database.py:193-207, 249-263  what the failed step leaves at store_path:
\* os.rename leaves nothing; every other branch opens the destination for
\* writing before or while copying, so a failure leaves nothing or a
\* partial file
FailedCopyLeaves(kind, keep_src, same_format) ==
    IF same_format /\ kind = "path" /\ ~keep_src THEN {"absent"}
    ELSE {"absent", "partial"}

Put(files, name, data) == [n \in DOMAIN files \cup {name} |-> IF n = name THEN data ELSE files[n]]
Unlink(files, name) == [n \in DOMAIN files \ {name} |-> files[n]]

StoreGenomeResult(kind, keep_src, src_compression, compression, fault, name, raised) ==
    [kind |-> kind, keep_src |-> keep_src, src_compression |-> src_compression,
     compression |-> compression, fault |-> fault, filename |-> name, raised |-> raised]

InitGenomes ==
    /\ IdleFinder /\ IdleIndex /\ IdleStore /\ IdleQuery /\ IdleRank /\ IdleColl
    /\ IdleGenomes /\ IdleDb /\ IdleExtra
    /\ call = "new"
    /\ ret = <<>>

\* database.py:158-293  one call of store_genome on a source that exists
StoreGenome(kind, keep_src, src_compression, compression, src_mode, fault) ==
    LET name == make_genome_file_name(genome_rows, compression = "gzip", 0)
        mode == src_mode_of(src_mode, src_compression)
        same_format == compression = src_compression
        src_moved == same_format /\ kind = "path" /\ ~keep_src
        needs_delete == ~same_format /\ kind = "path" /\ ~keep_src
        Result(raised) ==
            StoreGenomeResult(kind, keep_src, src_compression, compression, fault, name, raised)
    IN  /\ db = "Database"
        /\ Cardinality(genome_rows) < MaxGenomes
        /\ call' = "store_genome"
        /\ CASE fault = "name" ->
                 \* l.171  the query of _make_genome_file_name fails
                 /\ ret' = Result("OperationalError")
                 /\ src_file' = "present"
                 /\ UNCHANGED <<genome_files, genome_rows>>
              [] fault # "name" /\ name \in DOMAIN genome_files ->
                 \* l.175-176
                 /\ ret' = Result("RuntimeError")
                 /\ src_file' = "present"
                 /\ UNCHANGED <<genome_files, genome_rows>>
              [] fault # "name" /\ name \notin DOMAIN genome_files
                    /\ write_mode_raises(kind, mode) ->
                 \* l.182
                 /\ ret' = Result("UnboundLocalError")
                 /\ src_file' = "present"
                 /\ UNCHANGED <<genome_files, genome_rows>>
              [] fault = "copy" /\ name \notin DOMAIN genome_files
                    /\ ~write_mode_raises(kind, mode) ->
                 \* l.187-263  the copy, move or transcode fails
                 /\ ret' = Result("IOError")
                 /\ src_file' = "present"
                 /\ \E left \in FailedCopyLeaves(kind, keep_src, same_format) :
                       genome_files' = IF left = "partial"
                                       THEN Put(genome_files, name, "partial")
                                       ELSE genome_files
                 /\ UNCHANGED genome_rows
              [] fault = "commit" /\ name \notin DOMAIN genome_files
                    /\ ~write_mode_raises(kind, mode) ->
                 \* l.266-281  commit fails: the file is moved back or unlinked
                 /\ ret' = Result("IntegrityError")
                 /\ src_file' = "present"
                 /\ genome_files' = Unlink(Put(genome_files, name, "full"), name)
                 /\ UNCHANGED genome_rows
              [] fault = "none" /\ name \notin DOMAIN genome_files
                    /\ ~write_mode_raises(kind, mode) ->
                 \* l.266-293
                 /\ ret' = Result("none")
                 /\ genome_files' = Put(genome_files, name, "full")
                 /\ genome_rows' = genome_rows \cup {name}
                 /\ src_file' = IF src_moved \/ needs_delete THEN "absent" ELSE "present"
        /\ UNCHANGED <<finderVars, indexVars, storeVars, queryVars, rankVars, dbVars, collVars, extraVars>>

NextGenomes ==
    \E kind \in {"path", "stream"}, keep_src \in BOOLEAN,
       src_compression \in Compressions, compression \in Compressions,
       src_mode \in {"none", "rb"}, fault \in Faults :
        StoreGenome(kind, keep_src, src_compression, compression, src_mode, fault)

SpecGenomes == InitGenomes /\ [][NextGenomes]_vars

----------------------------------------------------------------------------
(* The reference-set builder (commands/kmers.py) and KmerSetAdder           *)
(* (database/database.py:522-565)                                           *)
(*                                                                          *)
(* A genome is [readable, records, is_assembled]: whether its blob can be   *)
(* read and parsed, the sequences of its records, and the catalog flag.     *)
(* None is the array record NoneVec.                                        *)

NoneVec == [dtype |-> "NoneType", ndim |-> 0, data |-> <<>>]

\* kmers.py:247-267  KmerFinder.bool_vec(out): out[index] = True per index
RECURSIVE bool_vec_loop(_, _)
bool_vec_loop(out, indices) ==
    IF indices = <<>> THEN out
    ELSE bool_vec_loop([out EXCEPT !.data[Head(indices) + 1] = Cast(out.dtype, "bool", TRUE)],
                       Tail(indices))

bool_vec(s, sp, revcomp, out) ==
    bool_vec_loop(IF out = NoneVec THEN np_zeros(sp.idx_len, "bool") ELSE out,
                  KmerFinder_get_indices(s, sp, revcomp, FALSE))

\* kmers.py:269-296  KmerFinder.counts_vec(out): out[index] += 1 per index
RECURSIVE counts_vec_loop(_, _)
counts_vec_loop(out, indices) ==
    IF indices = <<>> THEN out
    ELSE counts_vec_loop([out EXCEPT !.data[Head(indices) + 1] = Cast(out.dtype, "int64", @ + 1)],
                         Tail(indices))

counts_vec(s, sp, revcomp, out) ==
    counts_vec_loop(IF out = NoneVec THEN np_zeros(sp.idx_len, "uint16") ELSE out,
                    KmerFinder_get_indices(s, sp, revcomp, FALSE))

\* commands/kmers.py:35-45  the loop over the records of a genome
RECURSIVE calc_ref_loop(_, _, _, _)
calc_ref_loop(recs, sp, is_assembled, v) ==
    IF recs = <<>> THEN v
    ELSE calc_ref_loop(Tail(recs), sp, is_assembled,
                       IF is_assembled THEN bool_vec(Head(recs), sp, TRUE, v)
                       ELSE counts_vec(Head(recs), sp, TRUE, v))

\* commands/kmers.py:25-47  RefCalculator.calc_ref; a blob that cannot be
\* opened or parsed raises
calc_ref(genome, sp) ==
    IF ~genome.readable THEN Raised("IOError")
    ELSE calc_ref_loop(genome.records, sp, genome.is_assembled, NoneVec)

\* database.py:539-546  the KmerSet row of a vector
KmerSetRow(v, genome_id, has_counts) ==
    [genome_id |-> genome_id, dtype_str |-> v.dtype, has_counts |-> has_counts,
     count |-> Len(np_nonzero(v)), filename |-> genome_id]

\* database.py:560-562 without the unlink
on_commit_error_keep(files, genome_id) == files

\* database.py:560-562  except Exception: os.unlink(store_path); raise
on_commit_error(files, genome_id) == Unlink(files, genome_id)

\* database.py:529-565  KmerSetAdder.__call__(vec, genome, has_counts=...):
\* the files and rows it leaves and the exception it raised ("none" if it
\* returned).  The commit fails when `fault` is injected and when the pair
\* (collection, genome) already has a row (primary key).
KmerSetAdder_call(files, rows, fmt, sp, v, genome_id, has_counts, fault) ==
    IF v = NoneVec
    THEN [files |-> files, rows |-> rows, raised |-> "AttributeError"]
    ELSE LET row == KmerSetRow(v, genome_id, has_counts)
             written == Put(files, genome_id, format_store(fmt, v, row, sp))
         IN  IF fault \/ genome_id \in DOMAIN rows
             THEN [files |-> on_commit_error(written, genome_id), rows |-> rows,
                   raised |-> "IntegrityError"]
             ELSE [files |-> written, rows |-> Put(rows, genome_id, row),
                   raised |-> "none"]

\* every genome of the catalog, with or without a k-mer set
genomes_todo_all(gs, rows) == SortedSeq(DOMAIN gs)

\* commands/kmers.py:151-154  the genomes without a k-mer set in the
\* collection, in the order of their ids
genomes_todo(gs, rows) == SortedSeq({g \in DOMAIN gs : g \notin DOMAIN rows})

\* commands/kmers.py:165-185  the loop over izip(results, genomes).  A
\* result that is an exception is raised by next(results), in the for
\* statement, outside the try block: the loop ends there.
RECURSIVE calc_loop(_, _, _, _, _, _, _, _, _)
calc_loop(todo, gs, files, rows, fmt, sp, faults, added, errors) ==
    IF todo = <<>>
    THEN [files |-> files, rows |-> rows, added |-> added, errors |-> errors, raised |-> "none"]
    ELSE LET g == Head(todo)
             v == calc_ref(gs[g], sp)
             r == KmerSetAdder_call(files, rows, fmt, sp, v, g, ~gs[g].is_assembled,
                                    g \in faults)
         IN  IF v = Raised("IOError")
             THEN [files |-> files, rows |-> rows, added |-> added, errors |-> errors,
                   raised |-> "IOError"]
             ELSE calc_loop(Tail(todo), gs, r.files, r.rows, fmt, sp, faults,
                            IF r.raised = "none" THEN added + 1 ELSE added,
                            IF r.raised = "none" THEN errors ELSE errors + 1)

\* the collection built: k = 2, prefix "A"
BuilderSpec == KmerSpec(2, <<"A">>)

\* the genomes in the catalog: an assembly of one record, a set of two
\* reads, a file without records, and a blob that cannot be read
Genomes ==
    {[readable |-> TRUE, records |-> <<<<"A", "C", "A">>>>, is_assembled |-> TRUE],
     [readable |-> TRUE, records |-> <<<<"A", "T", "A">>, <<"A", "T", "A">>>>,
      is_assembled |-> FALSE],
     [readable |-> TRUE, records |-> <<>>, is_assembled |-> TRUE],
     [readable |-> FALSE, records |-> <<>>, is_assembled |-> TRUE]}

InitBuilder ==
    /\ IdleIndex /\ IdleQuery /\ IdleRank /\ IdleGenomes /\ IdleDb /\ IdleExtra
    /\ seq = <<>> /\ quality = <<>> /\ threshold = 0
    /\ find_revcomp = TRUE /\ seq_circular = FALSE
    /\ spec = BuilderSpec
    /\ vec = Raised("none")
    /\ kmer_set = [dtype_str |-> "bool", has_counts |-> FALSE]
    /\ file = NoFile
    /\ format \in {"raw", "coords"}
    /\ genomes \in SeqsUpTo(Genomes, MaxGenomes)
    /\ set_files = <<>>
    /\ set_rows = <<>>
    /\ call = "new"
    /\ ret = <<>>

\* database.py:529-565  store_set(vec, genome, has_counts=...) on the vector
\* of genome g; `fault` makes the commit fail
StoreSet(g, fault) ==
    \E r \in {KmerSetAdder_call(set_files, set_rows, format, spec,
                                 calc_ref(genomes[g], spec), g,
                                 ~genomes[g].is_assembled, fault)} :
        /\ genomes[g].readable
        /\ call' = "store_set"
        /\ ret' = [genome_id |-> g, fault |-> fault, raised |-> r.raised,
                   had_row |-> g \in DOMAIN set_rows, had_file |-> g \in DOMAIN set_files]
        /\ set_files' = r.files
        /\ set_rows' = r.rows
        /\ UNCHANGED <<finderVars, indexVars, storeVars, queryVars, rankVars, genomeVars,
                       dbVars, genomes, extraVars>>

\* commands/kmers.py:127-191  one run of `refs calc` on the collection;
\* `faults` are the genomes whose commit fails in this run.  The report
\* says whether the run follows another run directly (rerun) and, if so,
\* what that run reported (first).
Calc(faults) ==
    \E r \in {calc_loop(genomes_todo(genomes, set_rows), genomes, set_files, set_rows,
                         format, spec, faults, 0, 0)} :
        /\ call' = "calc"
        /\ ret' = [rerun |-> call = "calc",
                   first |-> IF call = "calc"
                             THEN [added |-> ret.added, errors |-> ret.errors,
                                   raised |-> ret.raised]
                             ELSE [added |-> 0, errors |-> 0, raised |-> "none"],
                   todo |-> genomes_todo(genomes, set_rows),
                   added |-> r.added, errors |-> r.errors,
                   skipped |-> IF r.raised = "none"
                               THEN Len(genomes) - r.added - r.errors ELSE 0,
                   raised |-> r.raised]
        /\ set_files' = r.files
        /\ set_rows' = r.rows
        /\ UNCHANGED <<finderVars, indexVars, storeVars, queryVars, rankVars, genomeVars,
                       dbVars, genomes, extraVars>>

NextBuilder ==
    \/ \E g \in DOMAIN genomes, fault \in BOOLEAN : StoreSet(g, fault)
    \/ \E faults \in SUBSET (DOMAIN genomes) : Calc(faults)

SpecBuilder == InitBuilder /\ [][NextBuilder]_vars

----------------------------------------------------------------------------
(* Database.open (database/database.py:358-371)                             *)

NoInfoFile == [exists |-> FALSE, version |-> 0]

\* the version numbers a directory may have been written with
Versions == (CURRENT_DB_VERSION - VersionSpread)..(CURRENT_DB_VERSION + VersionSpread)

InfoFiles == {NoInfoFile} \cup {[exists |-> TRUE, version |-> v] : v \in Versions}

\* a check that lets older databases through
version_matches_or_older(version) == version <= CURRENT_DB_VERSION

\* database.py:368  info['version'] != CURRENT_DB_VERSION raises
version_matches(version) == version = CURRENT_DB_VERSION

\* a directory with or without an info file whose genome area holds the
\* gzip files of n committed genomes; no Database object yet
InitDatabase ==
    /\ IdleFinder /\ IdleIndex /\ IdleStore /\ IdleQuery /\ IdleRank /\ IdleColl /\ IdleExtra
    /\ info_file \in InfoFiles
    /\ db = "none"
    /\ \E n \in 0..MaxGenomes :
          /\ genome_rows = {[i |-> i, gz |-> TRUE] : i \in 0..(n - 1)}
          /\ genome_files = [name \in {[i |-> i, gz |-> TRUE] : i \in 0..(n - 1)} |-> "full"]
    /\ src_file = "present"
    /\ call = "new"
    /\ ret = <<>>

\* database.py:358-371  Database.open(directory)
Open ==
    /\ call' = "open"
    /\ IF ~info_file.exists
       THEN /\ ret' = [raised |-> "RuntimeError",
                       message |-> "Directory does not contain a database"]
            /\ UNCHANGED db
       ELSE IF ~version_matches(info_file.version)
       THEN /\ ret' = [raised |-> "RuntimeError",
                       message |-> "Database is not of the current version"]
            /\ UNCHANGED db
       ELSE /\ ret' = [raised |-> "none", message |-> ""]
            /\ db' = "Database"
    /\ UNCHANGED <<finderVars, indexVars, storeVars, queryVars, rankVars, genomeVars,
                   collVars, info_file, extraVars>>

NextDatabase == Open \/ NextGenomes
SpecDatabase == InitDatabase /\ [][NextDatabase]_vars

----------------------------------------------------------------------------
(* KmerFinder.bool_vec and KmerFinder.counts_vec on a given `out`            *)
(* (kmers.py:247-296)                                                        *)

\* kmers.py:269  the largest value of the default element type np.uint16
uint16_max == 65535

\* the vectors handed in as `out`: counts that are small or next to the
\* largest value of the element type, at up to MaxNonzero positions
OutVecs(n) ==
    UNION {{[dtype |-> "uint16", ndim |-> 1,
             data |-> [i \in 1..n |-> IF (i - 1) \in S THEN c[i - 1] ELSE 0]] :
               c \in [S -> {1, uint16_max - 1, uint16_max}]} : S \in Supports(n)}

InitCounts ==
    /\ IdleIndex /\ IdleQuery /\ IdleOther
    /\ seq \in SeqsUpTo(NucleotideSet, MaxSeqLen)
    /\ spec = BuilderSpec
    /\ find_revcomp \in BOOLEAN
    /\ seq_circular = FALSE
    /\ quality = <<>> /\ threshold = 0
    /\ vec \in OutVecs(spec.idx_len) \cup {NoneVec}
    /\ kmer_set = [dtype_str |-> "uint16", has_counts |-> TRUE]
    /\ format = "raw"
    /\ file = NoFile
    /\ call = "new"
    /\ ret = <<>>

\* kmers.py:269-296  finder.counts_vec(out=vec)
CountsVec ==
    /\ call' = "counts_vec"
    /\ ret' = counts_vec(seq, spec, find_revcomp, vec)
    /\ UNCHANGED <<finderVars, indexVars, storeVars, queryVars, otherVars>>

\* kmers.py:247-267  finder.bool_vec(out=vec)
BoolVec ==
    /\ call' = "bool_vec"
    /\ ret' = bool_vec(seq, spec, find_revcomp, vec)
    /\ UNCHANGED <<finderVars, indexVars, storeVars, queryVars, otherVars>>

NextCounts == CountsVec \/ BoolVec
SpecCounts == InitCounts /\ [][NextCounts]_vars

----------------------------------------------------------------------------
(* The coords format on index spaces of up to 4^17 positions (store.py)     *)
(*                                                                          *)
(* An index of such a space is written <<hi, lo>> for hi * 2^16 + lo with   *)
(* 0 <= lo < 2^16, and a dense vector is written as the ascending list of   *)
(* its nonzero positions.                                                   *)

Half == 2^16

\* kmers.py:162  idx_len = 4 ** k_sfx
wide_idx_len(k_sfx) ==
    IF 2 * k_sfx < 16 THEN <<0, 2^(2 * k_sfx)>> ELSE <<2^(2 * k_sfx - 16), 0>>

\* x - 1 and x / 2 of a positive power of two
WidePred(x) == IF x[2] > 0 THEN <<x[1], x[2] - 1>> ELSE <<x[1] - 1, Half - 1>>
WideHalf(x) == <<x[1] \div 2, (x[1] % 2) * (Half \div 2) + (x[2] \div 2)>>

\* kmers.py:116  out[:] = coords stores one non-negative int64 index: the
\* low 32 bits, read as two's complement for a signed type
wide_astype(dtype, x) ==
    CASE dtype = "int64" -> x
      [] dtype = "uint32" -> <<x[1] % Half, x[2]>>
      [] dtype = "int32" -> IF x[1] % Half >= Half \div 2
                            THEN <<(x[1] % Half) - Half, x[2]>>
                            ELSE <<x[1] % Half, x[2]>>

\* kmers.py:101-118  vec_to_coords(vec, counts=False, dtype)
wide_vec_to_coords(v, dtype) ==
    [dtype |-> dtype, ndim |-> 1,
     data |-> [j \in 1..Len(v.data) |-> wide_astype(dtype, v.data[j])]]

\* store.py:51-55  CoordsFormat.store of a presence vector
wide_CoordsFormat_store(v, sp) == np_save(wide_vec_to_coords(v, index_dtype(sp)))

\* store.py:66-67  CoordsFormat.load_coords
wide_CoordsFormat_load_coords(f) == np_load(f)

WideSfxs == 1..17

\* kmers.py:152-162  KmerSpec(k_sfx + 1, 'A')
WideSpec(k_sfx) ==
    [k |-> k_sfx + 1, prefix |-> <<"A">>, k_sfx |-> k_sfx, idx_len |-> wide_idx_len(k_sfx)]

\* positions at the ends and in the middle of the index space
WidePositions(n) == <<<<0, 0>>, WidePred(WideHalf(n)), WideHalf(n), WidePred(n)>>

WideVecs(n) ==
    {[dtype |-> "bool", ndim |-> 1,
      data |-> [j \in 1..Cardinality(S) |-> WidePositions(n)[SortedSeq(S)[j]]]] :
        S \in {T \in SUBSET (1..4) : Cardinality(T) <= MaxNonzero}}

InitWide ==
    /\ IdleIndex /\ IdleQuery /\ IdleOther
    /\ seq = <<>> /\ find_revcomp = FALSE /\ seq_circular = FALSE
    /\ quality = <<>> /\ threshold = 0
    /\ \E s \in WideSfxs : spec = WideSpec(s)
    /\ vec \in WideVecs(spec.idx_len)
    /\ kmer_set = [dtype_str |-> "bool", has_counts |-> FALSE]
    /\ format = "coords"
    /\ file = NoFile
    /\ call = "new"
    /\ ret = <<>>

\* store.py:51-55  format.store(fh, vec, kmer_set)
WideStore ==
    /\ file = NoFile
    /\ file' = wide_CoordsFormat_store(vec, spec)
    /\ call' = "store"
    /\ ret' = <<>>
    /\ UNCHANGED <<finderVars, indexVars, vec, kmer_set, format, queryVars, otherVars>>

\* store.py:66-67  format.load_coords(fh, kmer_set)
WideLoadCoords ==
    /\ file # NoFile
    /\ call' = "load_coords"
    /\ ret' = wide_CoordsFormat_load_coords(file)
    /\ UNCHANGED <<finderVars, indexVars, storeVars, queryVars, otherVars>>

NextWide == WideStore \/ WideLoadCoords
SpecWide == InitWide /\ [][NextWide]_vars

----------------------------------------------------------------------------
(* mp_query and mp_query_coords: a pool of workers filling the shared score *)
(* array (query.py:350-485)                                                 *)

MaxChunk == 2           \* largest chunk_size handed to mp_query

\* kwargs.pop('nworkers', mp.cpu_count())
WorkerCounts == 1..2

\* the error a task ends with, as a score
ScoreError(e) == [kind |-> e, num |-> 0, den |-> 0]

IsError(s) == s.kind \in {"AttributeError", "ZeroDivisionError"}

\* query.py:39-60  QueryMetric.__call__(query, ref, target).  With target
\* None the default handed to dict.get, self.py_func, is evaluated before the
\* lookup, and the object has no attribute of that name (the function is
\* kept as self._py_func); a compiled target is looked up in
\* self.nb_array_funcs, which does not exist either (self._nb_array_funcs).
QueryMetric_call(m, q, r, target) ==
    CASE target = "None" -> ScoreError("AttributeError")
      [] target = "python" -> metric_python(m, q, r)
      [] OTHER -> ScoreError("AttributeError")

\* a score stored into the ctypes.c_float array
c_float(s) == IF s.kind = "int" THEN [s EXCEPT !.kind = "float"] ELSE s

\* chunks of chunk_size + 1 references starting every chunk_size
mp_query_chunks_overlap(refs, chunk_size) ==
    [c \in 1..((Len(refs) + chunk_size - 1) \div chunk_size) |->
        [func |-> "QueryWorker.calc_scores", index |-> (c - 1) * chunk_size,
         refs |-> PySlice(refs, (c - 1) * chunk_size, c * chunk_size + 1)]]

\* query.py:402-403  [(i, ref_sets[i:i + chunk_size]) for i in range(0, len(ref_sets), chunk_size)]
mp_query_chunks(refs, chunk_size) ==
    [c \in 1..((Len(refs) + chunk_size - 1) \div chunk_size) |->
        [func |-> "QueryWorker.calc_scores", index |-> (c - 1) * chunk_size,
         refs |-> PySlice(refs, (c - 1) * chunk_size, c * chunk_size)]]

\* query.py:471  list(enumerate(ref_sets))
mp_query_coords_tasks(refs) ==
    [r \in 1..Len(refs) |->
        [func |-> "CoordsQueryWorker.calc_score", index |-> r - 1, refs |-> <<refs[r]>>]]

\* the cells of an array of shape (len(metrics), len(ref_sets), query.shape[0])
Cells(nm, nr, nq) == (0..(nm - 1)) \X (0..(nr - 1)) \X (0..(nq - 1))

PoolVec(S) == [dtype |-> "bool", ndim |-> 1, data |-> [i \in 1..QueryIdxLen |-> (i - 1) \in S]]
PoolVecs == {PoolVec({}), PoolVec({0})}
PoolQueries == {<<PoolVec({0})>>, <<PoolVec({0}), PoolVec({})>>}
MetricLists == {<<>>, <<"hamming">>, <<"jaccard", "asym_jacc">>}

InitPool ==
    /\ IdleFinder /\ IdleIndex /\ IdleStore /\ IdleRank /\ IdleGenomes /\ IdleDb /\ IdleColl
    /\ IdleRecords /\ IdleCollections /\ IdleFrame /\ IdleResults /\ IdleUpgrader
    /\ \E rows \in PoolQueries : query = [dtype |-> "bool", ndim |-> 2, data |-> rows]
    /\ ref = Raised("none")
    /\ ref_sets \in SeqsUpTo(PoolVecs, MaxRefs)
    /\ metric_names \in MetricLists
    /\ progress = FALSE
    /\ tasks = <<>>
    /\ next_task = 0
    /\ workers = <<>>
    /\ dest = <<>>
    /\ n_written = <<>>
    /\ task_errors = {}
    /\ call = "new"
    /\ ret = <<>>

\* query.py:380-404 and 450-472: the shared arrays, the pool and its tasks
StartPool(name, the_tasks, nworkers, the_progress) ==
    /\ call = "new"
    /\ call' = name
    /\ ret' = <<>>
    /\ progress' = the_progress
    /\ tasks' = the_tasks
    /\ next_task' = 0
    /\ workers' = [w \in 1..nworkers |-> [task |-> 0, pos |-> 0]]
    /\ dest' = [c \in Cells(Len(metric_names), Len(ref_sets), Len(query.data)) |-> FloatScore(0, 1)]
    /\ n_written' = [c \in Cells(Len(metric_names), Len(ref_sets), Len(query.data)) |-> 0]
    /\ task_errors' = {}
    /\ UNCHANGED <<finderVars, indexVars, storeVars, queryVars, rankVars, genomeVars, dbVars,
                   collVars, recordVars, collectionVars, frame, results, upgrader, ref_sets,
                   metric_names>>

\* query.py:373-417  mp_query(query, db, collection, ref_sets, metrics, ...)
MpQuery(chunk_size, nworkers, the_progress) ==
    StartPool("mp_query", mp_query_chunks(ref_sets, chunk_size), nworkers, the_progress)

\* query.py:443-485  mp_query_coords(query, db, collection, ref_sets, metrics, ...)
MpQueryCoords(nworkers, the_progress) ==
    StartPool("mp_query_coords", mp_query_coords_tasks(ref_sets), nworkers, the_progress)

PoolUnchanged ==
    UNCHANGED <<finderVars, indexVars, storeVars, queryVars, rankVars, genomeVars, dbVars,
                recordVars, collectionVars, frame, upgrader, ref_sets, metric_names, progress,
                tasks>>

\* a worker of the pool takes the next task of the queue
TakeTask(w) ==
    /\ workers[w].task = 0
    /\ next_task < Len(tasks)
    /\ next_task' = next_task + 1
    /\ workers' = [workers EXCEPT ![w] = [task |-> next_task + 1, pos |-> 0]]
    /\ UNCHANGED <<dest, n_written, task_errors, collVars, results, call, ret>>
    /\ PoolUnchanged

\* the task of worker w ends: with an error when e is one, else normally
EndTask(w, e) ==
    /\ workers' = [workers EXCEPT ![w] = [task |-> 0, pos |-> 0]]
    /\ task_errors' = IF e = "" THEN task_errors
                       ELSE task_errors \cup {[task |-> workers[w].task, error |-> e]}

\* query.py:362-370  QueryWorker.calc_scores: one metric of one chunk,
\* dest[i, index:index + len(ref_sets), :] = scores.T
CalcScoresStep(w) ==
    /\ workers[w].task # 0
    /\ tasks[workers[w].task].func = "QueryWorker.calc_scores"
    /\ next_task' = next_task
    /\ LET t == tasks[workers[w].task]
           i == workers[w].pos
           nq == Len(query.data)
       IN  IF i >= Len(metric_names)
           THEN EndTask(w, "") /\ UNCHANGED <<dest, n_written>>
           ELSE \E sc \in {[c \in (1..Len(t.refs)) \X (1..nq) |->
                               QueryMetric_call(metric_names[i + 1], query.data[c[2]],
                                                t.refs[c[1]], "None")]} :
                   IF \E c \in DOMAIN sc : IsError(sc[c])
                   THEN /\ EndTask(w, (CHOOSE s \in {sc[c] : c \in DOMAIN sc} : IsError(s)).kind)
                        /\ UNCHANGED <<dest, n_written>>
                   ELSE /\ dest' = [c \in DOMAIN dest |->
                                      IF c[1] = i /\ c[2] \in t.index..(t.index + Len(t.refs) - 1)
                                      THEN c_float(sc[<<c[2] - t.index + 1, c[3] + 1>>])
                                      ELSE dest[c]]
                        /\ n_written' = [c \in DOMAIN dest |->
                                      IF c[1] = i /\ c[2] \in t.index..(t.index + Len(t.refs) - 1)
                                      THEN n_written[c] + 1 ELSE n_written[c]]
                        /\ workers' = [workers EXCEPT ![w].pos = i + 1]
                        /\ UNCHANGED task_errors
    /\ UNCHANGED <<collVars, results, call, ret>>
    /\ PoolUnchanged

\* query.py:432-440  CoordsQueryWorker.calc_score: one cell,
\* dest[k, ref_idx, j] = metric.coords(query_coords, ref_coords)
CalcScoreStep(w) ==
    /\ workers[w].task # 0
    /\ tasks[workers[w].task].func = "CoordsQueryWorker.calc_score"
    /\ next_task' = next_task
    /\ LET t == tasks[workers[w].task]
           nq == Len(query.data)
           pos == workers[w].pos
       IN  IF pos >= Len(metric_names) * nq
           THEN EndTask(w, "") /\ UNCHANGED <<dest, n_written>>
           ELSE LET k == pos \div nq
                    j == pos % nq
                IN  \E s \in {metric_coords(metric_names[k + 1],
                                            vec_to_coords(query.data[j + 1], FALSE, "int64"),
                                            vec_to_coords(t.refs[1], FALSE, "int32"))} :
                       IF IsError(s)
                       THEN EndTask(w, s.kind) /\ UNCHANGED <<dest, n_written>>
                       ELSE /\ dest' = [dest EXCEPT ![<<k, t.index, j>>] = c_float(s)]
                            /\ n_written' = [n_written EXCEPT ![<<k, t.index, j>>] = @ + 1]
                            /\ workers' = [workers EXCEPT ![w].pos = pos + 1]
                            /\ UNCHANGED task_errors
    /\ UNCHANGED <<collVars, results, call, ret>>
    /\ PoolUnchanged

PoolRunning == call \in {"mp_query", "mp_query_coords"}

PoolDone == next_task = Len(tasks) /\ \A w \in DOMAIN workers : workers[w].task = 0

\* query.py:407-411, 475-479  `for r in results` re-raises the error of a task
ResultRaises ==
    /\ PoolRunning
    /\ progress
    /\ task_errors # {}
    /\ call' = "raise"
    /\ \E e \in task_errors : ret' = Raised(e.error)
    /\ UNCHANGED <<finderVars, indexVars, storeVars, queryVars, rankVars, genomeVars, dbVars,
                   collVars, extraVars>>

\* query.py:413-417, 481-485  pool.close(); pool.join(); return scores.np_array
PoolJoin ==
    /\ PoolRunning
    /\ PoolDone
    /\ ~(progress /\ task_errors # {})
    /\ call' = "return"
    /\ ret' = dest
    /\ UNCHANGED <<finderVars, indexVars, storeVars, queryVars, rankVars, genomeVars, dbVars,
                   collVars, extraVars>>

NextPool ==
    \/ \E cs \in 1..MaxChunk, n \in WorkerCounts, p \in BOOLEAN : MpQuery(cs, n, p)
    \/ \E n \in WorkerCounts, p \in BOOLEAN : MpQueryCoords(n, p)
    \/ \E w \in DOMAIN workers : TakeTask(w) \/ CalcScoresStep(w) \/ CalcScoreStep(w)
    \/ ResultRaises
    \/ PoolJoin
SpecPool == InitPool /\ [][NextPool]_vars

----------------------------------------------------------------------------
(* vec_from_records: one vector for a stream of records (parse.py:179-232)  *)
(* Records carry no PHRED scores and q_threshold is None.                   *)

MaxRecords == 2         \* most records of a stream
MaxThreshold == 2       \* largest c_threshold

\* parse.py:206-224  the loop over the records: every k-mer vector is
\* accumulated into the buffer of the record before
RECURSIVE records_loop(_, _, _, _)
records_loop(recs, sp, as_counts, buf) ==
    IF recs = <<>> THEN buf
    ELSE records_loop(Tail(recs), sp, as_counts,
                      IF as_counts THEN counts_vec(Head(recs), sp, TRUE, buf)
                      ELSE bool_vec(Head(recs), sp, TRUE, buf))

\* parse.py:227  np.greater_equal(buf, c_threshold, out=out): the values it
\* can return.  buf is None when the stream had no record: the comparison
\* of None with a number is a single False (broadcast into `out` when one is
\* given) or a TypeError.
np_greater_equal(buf, t, out) ==
    IF buf = NoneVec
    THEN {Raised("TypeError"),
          IF out = NoneVec THEN [dtype |-> "bool", ndim |-> 0, data |-> <<FALSE>>]
          ELSE [out EXCEPT !.data = [i \in DOMAIN out.data |-> FALSE]]}
    ELSE {[dtype |-> "bool", ndim |-> 1, data |-> [i \in DOMAIN buf.data |-> buf.data[i] >= t]]}

\* parse.py:179-232  vec_from_records(records, spec, counts, c_threshold=t, out=out):
\* the values it can return
vec_from_records(recs, sp, counts, t, out) ==
    LET as_counts == counts \/ t # NoThreshold
        buf0 == IF counts \/ t = NoThreshold THEN out ELSE NoneVec
        buf == records_loop(recs, sp, as_counts, buf0)
    IN  IF t # NoThreshold THEN np_greater_equal(buf, t, out) ELSE {buf}

RecordSeqs == {s \in SeqsUpTo({"A", "C"}, MaxSeqLen) : Len(s) >= 2}

InitRecords ==
    /\ IdleIndex /\ IdleQuery /\ IdleRank /\ IdleGenomes /\ IdleDb /\ IdleColl /\ IdlePool
    /\ IdleCollections /\ IdleFrame /\ IdleResults /\ IdleUpgrader
    /\ seq = <<>> /\ find_revcomp = TRUE /\ seq_circular = FALSE
    /\ quality = <<>> /\ threshold = 0
    /\ spec = BuilderSpec
    /\ records \in SeqsUpTo(RecordSeqs, MaxRecords)
    /\ c_threshold \in {NoThreshold} \cup (0..MaxThreshold)
    /\ vec \in {NoneVec, np_zeros(spec.idx_len, "bool")}
    /\ kmer_set = [dtype_str |-> "bool", has_counts |-> FALSE]
    /\ format = "raw"
    /\ file = NoFile
    /\ call = "new"
    /\ ret = <<>>

\* parse.py:179-232  vec_from_records(records, spec, counts, c_threshold=..., out=vec);
\* counts are asked for with out=None, a boolean out is the row of
\* parse_to_array (parse.py:245, 266)
VecFromRecords(counts) ==
    /\ counts => vec = NoneVec
    /\ call' = IF counts THEN "vec_from_records(counts)" ELSE "vec_from_records"
    /\ ret' \in vec_from_records(records, spec, counts, c_threshold, vec)
    /\ UNCHANGED <<finderVars, indexVars, storeVars, queryVars, otherVars>>

NextRecords == \E counts \in BOOLEAN : VecFromRecords(counts)
SpecRecords == InitRecords /\ [][NextRecords]_vars

----------------------------------------------------------------------------
(* Database.create_kmer_collection (database.py:320-343, 430-442)           *)
(* Titles and directory names are sequences of characters.                  *)

MaxCollections == 3     \* most collections of a database

\* database.py:432  kmer_collection.title[:25]
TitlePrefixLen == 25

\* the characters \w matches among those of the titles
WordChars == {"a", "b", "B", "x", "y", "_", "1", "2", "3"}

\* str.lower()
lower(c) == IF c = "B" THEN "b" ELSE c

\* database.py:432  re.sub(r'\W+', '_', s).lower(): every run of characters
\* outside \w becomes one underscore
RECURSIVE slug(_, _)
slug(s, in_run) ==
    IF s = <<>> THEN <<>>
    ELSE IF Head(s) \in WordChars THEN <<lower(Head(s))>> \o slug(Tail(s), FALSE)
    ELSE IF in_run THEN slug(Tail(s), TRUE)
    ELSE <<"_">> \o slug(Tail(s), TRUE)

\* str(i) for 1 <= i <= 3
DigitChar(i) == CASE i = 1 -> "1" [] i = 2 -> "2" [] OTHER -> "3"

\* database.py:430-442  _make_kmer_collection_dirname.  The loop body,
\* entered when a row has the directory, builds the next name with `+ ext`,
\* a name that is bound nowhere in the function or the module: NameError.
make_kmer_collection_dirname(rows, title) ==
    LET base == slug(PySlice(title, 0, TitlePrefixLen), FALSE)
    IN  IF \E r \in rows : r.directory = base
        THEN [raised |-> "NameError", dirname |-> <<>>]
        ELSE [raised |-> "none", dirname |-> base]

\* a title of n + 1 characters: n times "a", then c
LongTitle(n, c) == [i \in 1..(n + 1) |-> IF i <= n THEN "a" ELSE c]

Titles ==
    {<<"a">>, <<"B", "a">>, <<"b", "a">>, <<"a", " ", "-", "b">>, <<"a", "_", "b">>,
     <<"a", "_", "1">>,
     LongTitle(TitlePrefixLen, "x"), LongTitle(TitlePrefixLen, "y")}

InitCollections ==
    /\ IdleFinder /\ IdleIndex /\ IdleStore /\ IdleQuery /\ IdleRank /\ IdleGenomes
    /\ IdleDb /\ IdleColl /\ IdlePool /\ IdleRecords /\ IdleFrame /\ IdleResults
    /\ IdleUpgrader
    /\ collection_rows = {}
    /\ collection_dirs = {}
    /\ call = "new"
    /\ ret = <<>>

\* database.py:320-343  db.create_kmer_collection(title=title, ...); the
\* commit fails when `fault` is "commit"
CreateKmerCollection(title, fault) ==
    /\ Cardinality(collection_rows) < MaxCollections
    /\ call' = "create_kmer_collection"
    /\ \E d \in {make_kmer_collection_dirname(collection_rows, title)} :
          IF d.raised # "none"
          THEN /\ ret' = [title |-> title, fault |-> fault, raised |-> d.raised,
                          directory |-> <<>>, base_taken |-> TRUE]
               /\ UNCHANGED collectionVars
          ELSE IF d.dirname \in collection_dirs
          THEN /\ ret' = [title |-> title, fault |-> fault, raised |-> "OSError",
                          directory |-> <<>>, base_taken |-> FALSE]
               /\ UNCHANGED collectionVars
          ELSE IF fault = "commit"
          THEN /\ ret' = [title |-> title, fault |-> fault, raised |-> "SQLAlchemyError",
                          directory |-> <<>>, base_taken |-> FALSE]
               /\ UNCHANGED collectionVars
          ELSE /\ ret' = [title |-> title, fault |-> fault, raised |-> "none",
                          directory |-> d.dirname, base_taken |-> FALSE]
               /\ collection_rows' = collection_rows \cup {[title |-> title, directory |-> d.dirname]}
               /\ collection_dirs' = collection_dirs \cup {d.dirname}
    /\ UNCHANGED <<finderVars, indexVars, storeVars, queryVars, rankVars, genomeVars, dbVars,
                   collVars, poolVars, recordVars, frame, results, upgrader>>

NextCollections == \E title \in Titles, fault \in {"none", "commit"} : CreateKmerCollection(title, fault)
SpecCollections == InitCollections /\ [][NextCollections]_vars

----------------------------------------------------------------------------
(* Database.remove_genome (database.py:295-305)                             *)
(* Here set_rows and set_files are keyed by the file name of the genome     *)
(* the k-mer set belongs to.                                                *)

\* the genome areas removal starts from: up to MaxGenomes + 1 stored
\* genomes, a blob of which may have been lost
GenomeNames == {[i |-> i, gz |-> TRUE] : i \in 0..MaxGenomes}

\* models.py:124-129  cascade='all, delete-orphan' on Genome.kmer_sets:
\* deleting the Genome row deletes the KmerSet rows that reference it
cascade_delete(rows, name) == [n \in DOMAIN rows \ {name} |-> rows[n]]

InitRemove ==
    /\ IdleFinder /\ IdleIndex /\ IdleStore /\ IdleQuery /\ IdleRank /\ IdleDb /\ IdleExtra
    /\ genome_rows \in SUBSET GenomeNames
    /\ \E lost \in SUBSET genome_rows :
          genome_files = [n \in genome_rows \ lost |-> "full"]
    /\ src_file = "present"
    /\ genomes = <<>>
    /\ \E with_set \in SUBSET genome_rows :
          /\ set_rows = [n \in with_set |-> KmerSetRow(np_zeros(BuilderSpec.idx_len, "bool"), n, FALSE)]
          /\ set_files = [n \in with_set |-> np_save(np_zeros(BuilderSpec.idx_len, "bool"))]
    /\ call = "new"
    /\ ret = <<>>

\* database.py:295-305  db.remove_genome(genome) for a genome of the
\* catalog; the commit of the deletion fails when `fault` is "commit"
RemoveGenome(name, fault) ==
    /\ name \in genome_rows
    /\ call' = "remove_genome"
    /\ ret' = [filename |-> name, fault |-> fault,
               raised |-> IF fault = "commit" THEN "SQLAlchemyError" ELSE "none",
               had_file |-> name \in DOMAIN genome_files]
    /\ genome_files' = IF name \in DOMAIN genome_files THEN Unlink(genome_files, name)
                        ELSE genome_files
    /\ IF fault = "commit"
       THEN UNCHANGED <<genome_rows, set_rows>>
       ELSE /\ genome_rows' = genome_rows \ {name}
            /\ set_rows' = cascade_delete(set_rows, name)
    /\ UNCHANGED <<finderVars, indexVars, storeVars, queryVars, rankVars, dbVars, extraVars,
                   src_file, genomes, set_files>>

NextRemove == \E name \in GenomeNames, fault \in {"none", "commit"} : RemoveGenome(name, fault)
SpecRemove == InitRemove /\ [][NextRemove]_vars

----------------------------------------------------------------------------
(* store_genome statement by statement (database.py:158-293): the file      *)
(* operation, the commit with its handlers, the removal of the source.      *)
(* The source is a path or a stream opened with a src_mode.                 *)

StepsUnchanged ==
    UNCHANGED <<finderVars, indexVars, storeVars, queryVars, rankVars, dbVars, collVars,
                poolVars, recordVars, collectionVars, results, upgrader>>

InitSteps ==
    /\ IdleFinder /\ IdleIndex /\ IdleStore /\ IdleQuery /\ IdleRank /\ IdleColl
    /\ IdleGenomes /\ IdleDb /\ IdleExtra
    /\ call = "new"
    /\ ret = <<>>

\* database.py:158-185  a new call on a source that exists: arguments,
\* file name, store path
BeginStoreGenome(kind, keep_src, same_format, gz) ==
    /\ frame.pc \in {"none", "returned", "raised"}
    /\ Cardinality(genome_rows) < MaxGenomes
    /\ LET name == make_genome_file_name(genome_rows, gz, 0)
       IN  IF name \in DOMAIN genome_files
           THEN \* l.175-176  RuntimeError: the store path exists
                /\ frame' = Frame(kind, keep_src, same_format, name, FALSE, FALSE, "raised")
                /\ ret' = Raised("RuntimeError")
           ELSE /\ frame' = Frame(kind, keep_src, same_format, name, FALSE, FALSE, "file_op")
                /\ ret' = <<>>
    /\ call' = "store_genome"
    /\ src_file' = "present"
    /\ UNCHANGED <<genome_files, genome_rows>>
    /\ StepsUnchanged

\* database.py:187-263  the move, copy or transcoding into the store path;
\* `outcome` is "ok", "IOError" or "KeyboardInterrupt"
FileOperation(outcome) ==
    /\ frame.pc = "file_op"
    /\ LET moving == frame.same_format /\ frame.kind = "path" /\ ~frame.keep_src
       IN  IF outcome = "ok"
           THEN /\ genome_files' = Put(genome_files, frame.filename, "full")
                /\ src_file' = IF moving THEN "absent" ELSE src_file
                /\ frame' = [frame EXCEPT !.pc = "commit", !.src_moved = moving,
                                           !.needs_delete = ~frame.same_format
                                                /\ frame.kind = "path" /\ ~frame.keep_src]
                /\ ret' = ret
           ELSE /\ \E left \in FailedCopyLeaves(frame.kind, frame.keep_src, frame.same_format) :
                      genome_files' = IF left = "partial"
                                      THEN Put(genome_files, frame.filename, "partial")
                                      ELSE genome_files
                /\ src_file' = src_file
                /\ frame' = [frame EXCEPT !.pc = "raised"]
                /\ ret' = Raised(outcome)
    /\ UNCHANGED <<genome_rows, call>>
    /\ StepsUnchanged

\* database.py:266-285  session.add, session.commit and the handlers.
\* `except Exception` undoes the file operation; a KeyboardInterrupt raised
\* in the commit is no Exception and passes the handler by.
Commit(outcome) ==
    /\ frame.pc = "commit"
    /\ CASE outcome = "ok" ->
              /\ genome_rows' = genome_rows \cup {frame.filename}
              /\ frame' = [frame EXCEPT !.pc = "committed"]
              /\ ret' = ret
              /\ UNCHANGED <<genome_files, src_file>>
         [] outcome = "IntegrityError" ->
              /\ genome_files' = Unlink(genome_files, frame.filename)
              /\ src_file' = IF frame.src_moved THEN "present" ELSE src_file
              /\ frame' = [frame EXCEPT !.pc = "raised"]
              /\ ret' = Raised(outcome)
              /\ UNCHANGED genome_rows
         [] outcome = "KeyboardInterrupt" ->
              /\ frame' = [frame EXCEPT !.pc = "raised"]
              /\ ret' = Raised(outcome)
              /\ UNCHANGED <<genome_files, genome_rows, src_file>>
    /\ UNCHANGED call
    /\ StepsUnchanged

\* database.py:288-293  if needs_delete: os.unlink(file_); return genome
RemoveSource ==
    /\ frame.pc = "committed"
    /\ src_file' = IF frame.needs_delete THEN "absent" ELSE src_file
    /\ frame' = [frame EXCEPT !.pc = "returned"]
    /\ ret' = [filename |-> frame.filename]
    /\ UNCHANGED <<genome_files, genome_rows, call>>
    /\ StepsUnchanged

NextSteps ==
    \/ \E kind \in {"path", "stream"}, keep_src, same_format, gz \in BOOLEAN :
          BeginStoreGenome(kind, keep_src, same_format, gz)
    \/ \E outcome \in {"ok", "IOError", "KeyboardInterrupt"} : FileOperation(outcome)
    \/ \E outcome \in {"ok", "IntegrityError", "KeyboardInterrupt"} : Commit(outcome)
    \/ RemoveSource
SpecSteps == InitSteps /\ [][NextSteps]_vars

----------------------------------------------------------------------------
(* `refs calc` with its worker pool (commands/kmers.py:159-185): workers    *)
(* compute calc_ref of the genomes, the main loop consumes the results of   *)
(* pool.imap next to the genomes and stores each vector.                    *)

\* the results an iterator may yield next when `index` results were
\* consumed, if results were yielded in the order the workers finish
imap_next_unordered(cache, index) == DOMAIN cache

\* commands/kmers.py:167  pool.imap: IMapIterator.next yields the result of
\* task index + 1, once it is there
imap_next(cache, index) == IF (index + 1) \in DOMAIN cache THEN {index + 1} ELSE {}

InitImap ==
    /\ IdleIndex /\ IdleQuery /\ IdleRank /\ IdleGenomes /\ IdleDb
    /\ IdlePool /\ IdleRecords /\ IdleCollections /\ IdleFrame /\ IdleResults /\ IdleUpgrader
    /\ seq = <<>> /\ quality = <<>> /\ threshold = 0
    /\ find_revcomp = TRUE /\ seq_circular = FALSE
    /\ spec = BuilderSpec
    /\ vec = Raised("none")
    /\ kmer_set = [dtype_str |-> "bool", has_counts |-> FALSE]
    /\ file = NoFile
    /\ format \in {"raw", "coords"}
    /\ genomes \in SeqsUpTo(Genomes, MaxGenomes)
    /\ set_files = <<>>
    /\ set_rows = <<>>
    /\ call = "new"
    /\ ret = <<>>

ImapUnchanged ==
    UNCHANGED <<finderVars, indexVars, storeVars, queryVars, rankVars, genomeVars, dbVars,
                recordVars, collectionVars, frame, upgrader, genomes, ref_sets, metric_names,
                progress, dest, n_written>>

\* commands/kmers.py:149-167  the genomes without a set, the pool, pool.imap
StartCalc(nworkers) ==
    /\ call = "new"
    /\ call' = "calc"
    /\ ret' = <<>>
    /\ tasks' = [i \in 1..Len(genomes_todo(genomes, set_rows)) |->
                   [func |-> "RefCalculator.calc_ref",
                    genome_id |-> genomes_todo(genomes, set_rows)[i]]]
    /\ next_task' = 0
    /\ workers' = [w \in 1..nworkers |-> [task |-> 0, pos |-> 0]]
    /\ results' = NoResults
    /\ task_errors' = {}
    /\ UNCHANGED <<set_files, set_rows>>
    /\ ImapUnchanged

\* commands/kmers.py:25-47  RefCalculator.calc_ref in worker w; the vector,
\* or the exception, goes to the cache of the results iterator
CalcRefStep(w) ==
    /\ workers[w].task # 0
    /\ tasks[workers[w].task].func = "RefCalculator.calc_ref"
    /\ results' = [results EXCEPT !.cache =
                      Put(@, workers[w].task,
                          calc_ref(genomes[tasks[workers[w].task].genome_id], spec))]
    /\ workers' = [workers EXCEPT ![w] = [task |-> 0, pos |-> 0]]
    /\ UNCHANGED <<tasks, next_task, task_errors, set_files, set_rows, call, ret>>
    /\ ImapUnchanged

\* commands/kmers.py:171-185  one turn of `for vec, genome in izip(results,
\* genomes)`: the next result, the genome at the same position, store_set
NextResult ==
    /\ call = "calc"
    /\ results.index < Len(tasks)
    /\ \E j \in imap_next(results.cache, results.index) :
          LET g == tasks[results.index + 1].genome_id
              v == results.cache[j]
          IN  IF v.ndim = 0 /\ v # NoneVec
              THEN \* next(results) re-raises the exception of the worker
                   /\ call' = "raise"
                   /\ ret' = [genome_id |-> g, vec |-> v, raised |-> v.dtype]
                   /\ UNCHANGED <<results, set_files, set_rows>>
              ELSE \E r \in {KmerSetAdder_call(set_files, set_rows, format, spec, v, g,
                                                ~genomes[g].is_assembled, FALSE)} :
                      /\ set_files' = r.files
                      /\ set_rows' = r.rows
                      /\ results' = [results EXCEPT
                                        !.index = @ + 1,
                                        !.added = IF r.raised = "none" THEN @ + 1 ELSE @,
                                        !.errors = IF r.raised = "none" THEN @ ELSE @ + 1]
                      /\ call' = call
                      /\ ret' = [genome_id |-> g, vec |-> v, raised |-> r.raised]
    /\ UNCHANGED <<tasks, next_task, workers, task_errors>>
    /\ ImapUnchanged

\* commands/kmers.py:187-191  the loop is over: the report
CalcReturn ==
    /\ call = "calc"
    /\ results.index = Len(tasks)
    /\ call' = "return"
    /\ ret' = [added |-> results.added, errors |-> results.errors]
    /\ UNCHANGED <<tasks, next_task, workers, task_errors, results, set_files, set_rows>>
    /\ ImapUnchanged

NextImap ==
    \/ \E n \in WorkerCounts : StartCalc(n)
    \/ \E w \in DOMAIN workers : TakeTask(w) \/ CalcRefStep(w)
    \/ NextResult
    \/ CalcReturn
SpecImap == InitImap /\ [][NextImap]_vars

----------------------------------------------------------------------------
(* DatabaseUpgrader.upgrade (database/upgrade.py:36-50), statement by       *)
(* statement, on a directory other processes may try to open                *)

\* a loop that starts at version 1 whatever the version read
upgrade_range_from_one(db_ver) == [i \in 1..(CURRENT_DB_VERSION - 1) |-> i]

\* upgrade.py:39  range(db_ver, CURRENT_DB_VERSION)
upgrade_range(db_ver) ==
    [i \in 1..(IF db_ver < CURRENT_DB_VERSION THEN CURRENT_DB_VERSION - db_ver ELSE 0) |->
        db_ver + i - 1]

\* upgrade.py:47-50  the versions with a registered script
ScriptVersions == 1..(CURRENT_DB_VERSION - 1)

UpgradeUnchanged ==
    UNCHANGED <<finderVars, indexVars, storeVars, queryVars, rankVars, genomeVars, collVars,
                poolVars, recordVars, collectionVars, frame, results, db>>

\* a database directory stamped with a version: one of 1..CURRENT_DB_VERSION,
\* 0, or one written by a later release
InitUpgrade ==
    /\ IdleFinder /\ IdleIndex /\ IdleStore /\ IdleQuery /\ IdleRank /\ IdleColl
    /\ IdleGenomes /\ IdleExtra
    /\ \E v \in 0..(CURRENT_DB_VERSION + VersionSpread) :
          info_file = [exists |-> TRUE, version |-> v]
    /\ db = "none"
    /\ call = "new"
    /\ ret = <<>>

\* upgrade.py:38-39  db_ver = get_db_version(db_path) and the range of the loop
BeginUpgrade ==
    /\ upgrader.pc \in {"none", "returned", "raised"}
    /\ upgrader' = [pc |-> "loop", db_ver |-> info_file.version,
                    todo |-> upgrade_range(info_file.version), ran |-> <<>>]
    /\ call' = "upgrade"
    /\ ret' = <<>>
    /\ UNCHANGED info_file
    /\ UpgradeUnchanged

\* upgrade.py:39-40  the next v of the loop and self.scripts[v](db_path, v),
\* which returns or raises; the loop over, upgrade returns
RunScript(outcome) ==
    /\ upgrader.pc = "loop"
    /\ IF upgrader.todo = <<>>
       THEN /\ upgrader' = [upgrader EXCEPT !.pc = "returned"]
            /\ call' = "upgrade"
            /\ ret' = [raised |-> "none", message |-> ""]
       ELSE IF Head(upgrader.todo) \notin ScriptVersions
       THEN /\ upgrader' = [upgrader EXCEPT !.pc = "raised"]
            /\ call' = "upgrade"
            /\ ret' = [raised |-> "KeyError", message |-> ""]
       ELSE IF outcome = "raise"
       THEN /\ upgrader' = [upgrader EXCEPT !.pc = "raised",
                                            !.ran = Append(@, Head(upgrader.todo))]
            /\ call' = "upgrade"
            /\ ret' = [raised |-> "Exception", message |-> "script"]
       ELSE /\ upgrader' = [upgrader EXCEPT !.pc = "stamp",
                                            !.ran = Append(@, Head(upgrader.todo))]
            /\ UNCHANGED <<call, ret>>
    /\ UNCHANGED info_file
    /\ UpgradeUnchanged

\* upgrade.py:41, database.py:51-61  set_db_version(db_path, v + 1)
SetDbVersion ==
    /\ upgrader.pc = "stamp"
    /\ info_file' = [info_file EXCEPT !.version = Head(upgrader.todo) + 1]
    /\ upgrader' = [upgrader EXCEPT !.pc = "loop", !.todo = Tail(@)]
    /\ UNCHANGED <<call, ret>>
    /\ UpgradeUnchanged

NextUpgrade ==
    \/ BeginUpgrade
    \/ \E outcome \in {"return", "raise"} : RunScript(outcome)
    \/ SetDbVersion
    \/ Open
SpecUpgrade == InitUpgrade /\ [][NextUpgrade]_vars

----------------------------------------------------------------------------
Init == InitKmers
Next == NextKmers
Spec == Init /\ [][Next]_vars

----------------------------------------------------------------------------
(* Properties *)


\* the start positions p of `prefix` in s with p + k <= len(s)
Occurrences(s, k, prefix) ==
    {p \in 0..(Len(s) - k) : SubSeq(s, p + 1, p + Len(prefix)) = prefix}

\* C1: for a non-empty prefix the forward linear scan yields exactly the
\* start positions p of the prefix with p + k <= len(S), in ascending order,
\* overlapping occurrences included.
C1_ForwardScanFindsEveryOccurrence ==
    (call = "locate_kmers" /\ spec.plen > 0)
        => ret = SortedSeq(Occurrences(seq, spec.k, spec.prefix))

\* C2: when k > len(S) the enumeration over the linear sequence is empty, in
\* the forward scan and in the reverse-complement scan, so nothing shorter
\* than k - |prefix| is ever indexed.
C2_NoMatchWhenKExceedsLength ==
    (call \in {"get_kmers", "get_indices"} /\ ~seq_circular /\ spec.k > Len(seq))
        => ret = <<>>

\* C3: idx_len is 4^(k - |prefix|) and every index yielded by get_indices,
\* of a KmerFinder and of a QualityKmerFinder, lies in [0, idx_len).
C3_IndicesWithinIdxLen ==
    /\ spec.idx_len = 4 ^ (spec.k - Len(spec.prefix))
    /\ call = "get_indices"
        => \A i \in 1..Len(ret) : ret[i] >= 0 /\ ret[i] < spec.idx_len
    /\ call = "quality_get_indices"
        => \A i \in 1..Len(ret.items) : ret.items[i] >= 0 /\ ret.items[i] < spec.idx_len

\* a two-letter suffix was found and indexed at the last slot of the vector
C3_Witness ==
    /\ call = "quality_get_indices"
    /\ spec.k_sfx = 2
    /\ \E i \in 1..Len(ret.items) : ret.items[i] = spec.idx_len - 1

\* the digit of a nucleotide and the value of a word read as a base-4
\* number, most significant digit first
Digit(n) == CASE n = "A" -> 0 [] n = "C" -> 1 [] n = "G" -> 2 [] n = "T" -> 3

RECURSIVE Base4Value(_)
Base4Value(w) ==
    IF w = <<>> THEN 0
    ELSE Digit(w[1]) * 4 ^ (Len(w) - 1) + Base4Value(Tail(w))

\* C4: kmer_index and kmer_at_index are mutually inverse, the index being
\* the word read as a base-4 number with A=0, C=1, G=2, T=3, most
\* significant digit first.
C4_IndexRoundTrip ==
    /\ call = "kmer_index"
        => /\ ret = Base4Value(arg_kmer)
           /\ kmer_at_index(ret, Len(arg_kmer)) = arg_kmer
    /\ call = "kmer_at_index"
        => /\ Len(ret) = arg_k
           /\ kmer_index(ret) = arg_index

\* a three-letter word with distinct digits was decoded from its index
C4_Witness ==
    /\ call = "kmer_at_index"
    /\ arg_k = 3
    /\ ret = <<"C", "G", "T">>

\* Watson-Crick complement, reversed
WatsonCrick(c) ==
    CASE c = "A" -> "T" [] c = "T" -> "A" [] c = "C" -> "G" [] c = "G" -> "C" [] OTHER -> c

RevComp(s) == [i \in 1..Len(s) |-> WatsonCrick(s[Len(s) + 1 - i])]

\* C5: the set of k-mers found with revcomp=True is the union of the sets
\* found with revcomp=False on S and on the reverse complement of S.
C5_RevcompIsUnionOfStrands ==
    (call = "get_kmers" /\ find_revcomp)
        => Range(ret) =
              Range(KmerFinder_get_kmers(seq, spec, FALSE, seq_circular))
              \cup Range(KmerFinder_get_kmers(RevComp(seq), spec, FALSE, seq_circular))

\* the reverse strand contributed a k-mer the forward strand does not have
C5_Witness ==
    /\ call = "get_kmers"
    /\ find_revcomp
    /\ KmerFinder_get_kmers(seq, spec, FALSE, seq_circular) # <<>>
    /\ ~(Range(KmerFinder_get_kmers(RevComp(seq), spec, FALSE, seq_circular))
            \subseteq Range(KmerFinder_get_kmers(seq, spec, FALSE, seq_circular)))

\* the k-mers of one strand whose whole window [p, p+k) has scores >= thr
WholeWindowStrand(s, qual, sp, thr) ==
    LET ok(p) == \A i \in (p + 1)..(p + sp.k) : i <= Len(qual) => qual[i] >= thr
    IN  Suffixes(s, sp, SelectSeq(locate_kmers(s, sp.k, sp.prefix), ok))

\* C6: QualityKmerFinder emits the k-mer located at p iff the minimum score
\* over the whole window [p, p+k), prefix included, is >= threshold; the
\* reverse-complement scan reads the scores reversed.
C6_QualityOverWholeWindow ==
    (call = "quality_get_kmers" /\ ~seq_circular /\ spec.k <= Len(seq))
        => ret.items =
              WholeWindowStrand(seq, quality, spec, threshold)
              \o (IF find_revcomp
                  THEN WholeWindowStrand(RevComp(seq), Reverse(quality), spec, threshold)
                  ELSE <<>>)

\* the set a vector stands for, the count at each of its positions
SetOf(v) == {i \in 0..(Len(v.data) - 1) : IF v.dtype = "bool" THEN v.data[i + 1] ELSE v.data[i + 1] > 0}

C8_StoreLoadRoundTrip ==
    /\ call = "load"
        => /\ ret = vec
           /\ ret.dtype = kmer_set.dtype_str
    /\ (call = "load_coords" /\ ~ret.counts)
        => /\ ret.array.ndim = 1
           /\ ret.array.data = SortedSeq(SetOf(vec))

\* a count vector stored in the coords format was loaded back
C8_Witness ==
    /\ call = "load"
    /\ format = "coords"
    /\ kmer_set.has_counts
    /\ vec.dtype = "uint16"
    /\ Cardinality(SetOf(vec)) = 2
    /\ ret = vec

\* the value the specification gives a ratio: NaN when the denominator is 0
RatioOrNaN(n, d) ==
    IF d = 0 THEN [kind |-> "nan", num |-> 0, den |-> 0] ELSE FloatScore(n, d)

QSet == SetOf(query)
RSet == SetOf(ref)

\* C9: with a = |Q|, b = |R|, i = |Q n R| the sparse merge walk returns
\* hamming = a + b - 2i and jaccard = i / (a + b - i), and the loop runs at
\* most a + b times.
C9_SparseMetricsIdentity ==
    call = "coords"
        => LET a == Cardinality(QSet)
               b == Cardinality(RSet)
               i == Cardinality(QSet \cap RSet)
               w == merge_walk(SortedSeq(QSet), SortedSeq(RSet), 0, 0, 0, 0, 0)
           IN  /\ ret.metric = "hamming" => ret.score = IntScore(a + b - 2 * i)
               /\ ret.metric = "jaccard" => ret.score = RatioOrNaN(i, a + b - i)
               /\ w.iters <= a + b

\* C10: for every metric and every pair (Q, R) the dense implementation on
\* the boolean vectors and the sparse implementation on the coordinate
\* arrays return the same result.
C10_DenseEqualsSparse ==
    /\ call = "coords" => ret.score = metric_dense(ret.metric, query, ref)
    /\ call = "dense"
        => ret.score = metric_coords(ret.metric, vec_to_coords(query, FALSE, "int64"),
                                                 vec_to_coords(ref, FALSE, "int64"))

\* the denominator of a ratio metric on the pair (query, ref)
Denominator(m) ==
    CASE m = "jaccard" -> Cardinality(QSet \cup RSet)
      [] m = "asym_jacc" -> Cardinality(RSet)
      [] OTHER -> 1

\* C11: when the denominator is zero (|R| = 0 for asym_jacc, |Q u R| = 0 for
\* jaccard) every implementation of the metric, dense python, dense compiled
\* and sparse, returns NaN and raises nothing.
C11_ZeroDenominatorGivesNaN ==
    (call \in {"python", "dense", "coords"} /\ Denominator(ret.metric) = 0)
        => ret.score.kind = "nan"

\* the specification's ranking: a is at least as good as b under metric m
AtLeastAsGood(m, a, b) ==
    \/ b.kind = "nan"
    \/ /\ a.kind # "nan"
       /\ IF m = "hamming" THEN a.num * b.den <= b.num * a.den
                           ELSE a.num * b.den >= b.num * a.den

\* C12: top_matches lists references best first (ascending hamming,
\* descending jaccard and asym_jacc), NaN scores after every other score,
\* and yields exactly min(n, number of references) matches, the n best.
C12_TopMatchesBestFirst ==
    call = "top_matches"
        => LET out == ret.matches
               listed == {out[i].ref : i \in 1..Len(out)}
           IN  /\ Len(out) = IF ret.n < Len(scores) THEN ret.n ELSE Len(scores)
               /\ Cardinality(listed) = Len(out)
               /\ \A i \in 1..Len(out) :
                     /\ out[i].ref \in 0..(Len(scores) - 1)
                     /\ out[i].score = scores[out[i].ref + 1]
               /\ \A i, j \in 1..Len(out) :
                     i < j => AtLeastAsGood(ret.metric, out[i].score, out[j].score)
               /\ \A i \in 1..Len(out) : \A r \in (0..(Len(scores) - 1)) \ listed :
                     AtLeastAsGood(ret.metric, out[i].score, scores[r + 1])

C12_Witness ==
    /\ call = "top_matches"
    /\ ret.metric = "jaccard"
    /\ ret.n = 2
    /\ Len(scores) = 3
    /\ scores[1] = NaN
    /\ scores[2].num < scores[3].num
    /\ ret.matches[1].ref = 2

\* C13: in the ranked match table rank starts at 1 and increases by 1 per
\* listed reference, and references with equal scores appear in ascending
\* order of their index in the reference list.
C13_RankFromOneStableTies ==
    call = "matches_to_csv"
        => LET out == ret.matches
           IN  /\ \A i \in 1..Len(out) : out[i].rank = i
               /\ \A i, j \in 1..Len(out) :
                     (i < j /\ out[i].score = out[j].score) => out[i].ref < out[j].ref

\* the errors injected into store_genome
InjectedErrors == {"OperationalError", "IOError", "IntegrityError"}

\* C14: after any injected failure during store_genome (file-name
\* determination, copy/move/transcode, catalog commit) the genome area holds
\* no file and the catalog no row for that import: both are as they were
\* before the call, for every keep_src, source kind and compression pair.
C14_StoreGenomeFailureLeavesNothing ==
    [][(call' = "store_genome" /\ ret'.raised \in InjectedErrors)
          => (genome_files' = genome_files /\ genome_rows' = genome_rows)]_vars

\* C15: KmerSetAdder.__call__ writes gen-<genome_id>.npy and then inserts the
\* row; if the insert fails for a pair that had no row and no file, the file
\* written by the call is unlinked and no row is added.
C15_FailedInsertLeavesNoFileNoRow ==
    call = "store_set"
        => /\ ret.raised = "none"
                => (ret.genome_id \in DOMAIN set_files /\ ret.genome_id \in DOMAIN set_rows)
           /\ (ret.raised = "IntegrityError" /\ ~ret.had_row /\ ~ret.had_file)
                => (ret.genome_id \notin DOMAIN set_files
                    /\ ret.genome_id \notin DOMAIN set_rows)

C15_Witness ==
    /\ call = "store_set"
    /\ ret.raised = "IntegrityError"
    /\ ret.fault
    /\ ~ret.had_row /\ ~ret.had_file
    /\ DOMAIN set_rows # {}

\* the part of a file or row map that belongs to the genome ids in S
Restrict(f, S) == [x \in S \cap DOMAIN f |-> f[x]]

\* a run of the builder directly after another run: no genome that had a
\* k-mer set is processed, and the files and rows of those sets are kept
RerunKeepsSets ==
    /\ \A i \in 1..Len(ret'.todo) : ret'.todo[i] \notin DOMAIN set_rows
    /\ Restrict(set_files', DOMAIN set_rows) = Restrict(set_files, DOMAIN set_rows)
    /\ Restrict(set_rows', DOMAIN set_rows) = set_rows

C17_BuilderNeverAborts ==
    call = "calc"
        => /\ ret.raised = "none"
           /\ ret.added + ret.errors = Len(ret.todo)
           /\ ret.added + ret.errors + ret.skipped = Len(genomes)

\* the files of a database directory
DatabaseFiles == <<info_file, genome_files, genome_rows, set_files, set_rows>>

\* C18: Database.open succeeds only when the version in the info file equals
\* CURRENT_DB_VERSION; for a lower or higher version and for a directory
\* without the file it raises, and in every case no file of the database
\* is modified.
C18_OpenChecksVersion ==
    [][call' = "open"
          => (/\ ret'.raised = "none"
                    <=> (info_file.exists /\ info_file.version = CURRENT_DB_VERSION)
              /\ ret'.raised = "none" <=> db' = "Database"
              /\ UNCHANGED DatabaseFiles)]_vars

C18_Witness ==
    /\ call = "open"
    /\ ret.raised = "RuntimeError"
    /\ info_file.exists
    /\ info_file.version < CURRENT_DB_VERSION
    /\ genome_rows # {}

\* the indices of the length-k windows of s over A, C, G, T, by start position
RECURSIVE WindowIndices(_, _, _)
WindowIndices(s, k, p) ==
    IF p + k > Len(s) THEN <<>>
    ELSE (IF Range(SubSeq(s, p + 1, p + k)) \subseteq {"A", "C", "G", "T"}
          THEN <<Base4Value(SubSeq(s, p + 1, p + k))>> ELSE <<>>)
         \o WindowIndices(s, k, p + 1)

\* C19: with an empty prefix the scan considers every start position
\* 0..len(S)-k; the index of every length-k window over A, C, G, T is
\* emitted, once per occurrence, and no other index is.
C19_EmptyPrefixIndexesEveryWindow ==
    /\ (call = "locate_kmers" /\ spec.plen = 0)
          => ret = [i \in 1..(IF Len(seq) >= spec.k THEN Len(seq) - spec.k + 1 ELSE 0) |-> i - 1]
    /\ (call = "get_indices" /\ spec.plen = 0 /\ ~seq_circular)
          => ret = WindowIndices(seq, spec.k, 0)
                   \o (IF find_revcomp THEN WindowIndices(RevComp(seq), spec.k, 0) ELSE <<>>)

\* the start positions of the length-k windows of the circular sequence s
\* that cross its end-to-start junction and begin with the prefix
CrossingStarts(s, sp) ==
    {p \in 0..(Len(s) - 1) :
        /\ p + sp.k > Len(s)
        /\ \A i \in 0..(sp.plen - 1) : s[((p + i) % Len(s)) + 1] = sp.prefix[i + 1]}

\* the k-mer (the window without its prefix) read from start p around the circle
CrossingKmer(s, sp, p) == [i \in 1..sp.k_sfx |-> s[((p + sp.plen + i - 1) % Len(s)) + 1]]

\* C20: with circular=True every match the wrap-around scan emits is a
\* window crossing the end-to-start junction, and no occurrence reported by
\* the linear scan is emitted again, for every k >= 1 and every length.
C20_WrapScanOnlyCrossingWindows ==
    (call = "get_kmers" /\ seq_circular /\ ~find_revcomp /\ seq # <<>>)
        => LET linear == KmerFinder_get_kmers(seq, spec, FALSE, FALSE)
               wrapped == SubSeq(ret, Len(linear) + 1, Len(ret))
           IN  /\ SubSeq(ret, 1, Len(linear)) = linear
               /\ Len(wrapped) <= Cardinality(CrossingStarts(seq, spec))
               /\ \A i \in 1..Len(wrapped) :
                     \E p \in CrossingStarts(seq, spec) : wrapped[i] = CrossingKmer(seq, spec, p)

\* how often index i is found in the sequence of the finder
Found(i) ==
    LET idx == KmerFinder_get_indices(seq, spec, find_revcomp, seq_circular)
    IN  Cardinality({j \in 1..Len(idx) : idx[j] = i})

\* the vector counts_vec starts from
OutBefore == IF vec = NoneVec THEN [i \in 1..spec.idx_len |-> 0] ELSE vec.data

\* C21: counts_vec never silently wraps a counter: incrementing a position
\* whose count is the largest value of the element type raises instead of
\* storing a value reduced modulo 2^width; otherwise every found index is
\* incremented by exactly 1 per occurrence and no other position changes.
C21_CountsVecRaisesOnOverflow ==
    call = "counts_vec"
        => IF \E i \in 0..(spec.idx_len - 1) : OutBefore[i + 1] + Found(i) > uint16_max
           THEN ret.ndim = 0
           ELSE /\ ret.ndim = 1
                /\ \A i \in 0..(spec.idx_len - 1) : ret.data[i + 1] = OutBefore[i + 1] + Found(i)

\* the coordinates read back are the nonzero positions that were stored
WideRoundTrip == ret.ndim = 1 /\ ret.data = vec.data

\* C22 as stated: the coords format stores indices in an unsigned 32-bit
\* element type when N < 2^32 and in a 64-bit type otherwise, and every
\* index of [0, N) is read back without wrap or change of sign.
C22_CoordsIndexUnsigned32 ==
    call = "load_coords"
        => /\ ret.dtype = (IF spec.k_sfx < 16 THEN "uint32" ELSE "int64")
           /\ WideRoundTrip

\* C22 amended: the element type is signed 32-bit when N < 2^32 (N is a
\* power of 4, so N <= 2^30 then) and signed 64-bit otherwise, and every
\* index of [0, N) is read back without wrap or change of sign.
C22_CoordsIndexRoundTrip ==
    call = "load_coords"
        => /\ ret.dtype = (IF spec.k_sfx < 16 THEN "int32" ELSE "int64")
           /\ WideRoundTrip

\* an index of at least 2^31 in a space of 2^32 positions was read back
C22_Witness ==
    /\ call = "load_coords"
    /\ spec.k_sfx = 16
    /\ \E j \in 1..Len(vec.data) : vec.data[j][1] >= Half \div 2
    /\ WideRoundTrip

\* the reference positions a task writes: index .. index + len(refs) - 1
TaskRefs(t) == t.index..(t.index + Len(t.refs) - 1)

\* the score of metric m for the sets of positions Q and R, as a float
SetScore(m, Q, R) ==
    CASE m = "hamming" -> FloatScore(Cardinality((Q \ R) \cup (R \ Q)), 1)
      [] m = "jaccard" -> RatioOrNaN(Cardinality(Q \cap R), Cardinality(Q \cup R))
      [] m = "asym_jacc" -> RatioOrNaN(Cardinality(Q \cap R), Cardinality(R))

\* C23: in mp_query (every chunk_size >= 1) and mp_query_coords the tasks
\* partition the reference list: every reference position belongs to exactly
\* one task, which holds the references of its positions, and a task is run
\* by at most one worker, so no cell scores[metric, ref, query] is written
\* twice; when the call returns and no task failed, every cell has been
\* written exactly once, with the score of its metric, reference and query.
C23_TasksPartitionReferences ==
    call # "new"
        => /\ \A r \in 0..(Len(ref_sets) - 1) :
                 Cardinality({i \in DOMAIN tasks : r \in TaskRefs(tasks[i])}) = 1
           /\ \A i \in DOMAIN tasks :
                 \A n \in 1..Len(tasks[i].refs) :
                    /\ tasks[i].index + n <= Len(ref_sets)
                    /\ tasks[i].refs[n] = ref_sets[tasks[i].index + n]
           /\ \A w1, w2 \in DOMAIN workers :
                 (w1 # w2 /\ workers[w1].task # 0) => workers[w1].task # workers[w2].task
           /\ \A c \in DOMAIN n_written : n_written[c] <= 1
           /\ (call = "return" /\ task_errors = {})
                 => \A c \in DOMAIN dest :
                       /\ n_written[c] = 1
                       /\ dest[c] = SetScore(metric_names[c[1] + 1],
                                             SetOf(query.data[c[3] + 1]),
                                             SetOf(ref_sets[c[2] + 1]))

\* two workers scored two queries against three references, no task failed,
\* and the call returned
C23_Witness ==
    /\ call = "return"
    /\ task_errors = {}
    /\ Len(workers) = 2
    /\ Len(ref_sets) = 3
    /\ Len(query.data) = 2
    /\ Len(tasks) = 3
    /\ metric_names # <<>>
    /\ \A c \in DOMAIN dest : n_written[c] = 1

\* how often index i is found over all records of the stream
RECURSIVE TotalFound(_, _)
TotalFound(recs, i) ==
    IF recs = <<>> THEN 0
    ELSE LET idx == KmerFinder_get_indices(Head(recs), spec, TRUE, FALSE)
         IN  Cardinality({j \in 1..Len(idx) : idx[j] = i}) + TotalFound(Tail(recs), i)

\* C24: with a count threshold t > 0 vec_from_records accumulates the counts
\* of all records and thresholds once at the end: the result is a boolean
\* vector whose position i is true exactly when index i was found at least
\* t times over all records together.
C24_ThresholdAfterAccumulation ==
    (call \in {"vec_from_records", "vec_from_records(counts)"} /\ c_threshold > 0)
        => /\ ret.ndim = 1
           /\ Len(ret.data) = spec.idx_len
           /\ \A i \in 0..(spec.idx_len - 1) :
                 ret.data[i + 1] = (TotalFound(records, i) >= c_threshold)

\* the same on a stream with at least one record
ThresholdOnNonEmptyStream ==
    records # <<>> => C24_ThresholdAfterAccumulation

\* the directory names the specification allows for a title: the slug of
\* its first 25 characters, alone or followed by _1, _2, ...
AllowedDirnames(title) ==
    LET base == slug(PySlice(title, 0, TitlePrefixLen), FALSE)
    IN  {base} \cup {base \o <<"_", DigitChar(i)>> : i \in 1..MaxCollections}

\* C25: create_kmer_collection names the directory after the slug of the
\* first 25 characters of the title, lower-cased; when a collection already
\* has that directory the call still succeeds, with a numeric suffix, and
\* the directories of all collections are distinct.
C25_CollisionGetsNumericSuffix ==
    /\ \A r1, r2 \in collection_rows : r1.directory = r2.directory => r1 = r2
    /\ (call = "create_kmer_collection" /\ ret.fault = "none")
          => /\ ret.raised = "none"
             /\ ret.directory \in AllowedDirnames(ret.title)
             /\ [title |-> ret.title, directory |-> ret.directory] \in collection_rows

\* C26: remove_genome unlinks the blob if present and then deletes the row.
\* After it returns the genome area has no file of the genome, the catalog
\* has no row for it and no kmer_sets row referencing it, whether or not the
\* blob was there; and when the row deletion fails, a blob that was there is
\* still there: no catalog row is left whose blob the call deleted.
C26_RemoveGenomeLeavesNoHalf ==
    call = "remove_genome"
        => /\ ret.raised = "none"
                => /\ ret.filename \notin DOMAIN genome_files
                   /\ ret.filename \notin genome_rows
                   /\ ret.filename \notin DOMAIN set_rows
           /\ ret.fault = "none" => ret.raised = "none"
           /\ (ret.raised # "none" /\ ret.had_file)
                => ret.filename \in DOMAIN genome_files

\* C27: after any sequence of store_set calls on one collection, a call
\* repeated for a pair that has a committed row and the calls of two builder
\* runs interleaved included, every committed row still has its file, and
\* the file holds the vector stored when the row was committed.
C27_CommittedSetKeepsItsFile ==
    \A g \in DOMAIN set_rows :
        /\ g \in DOMAIN set_files
        /\ set_files[g] = format_store(format, calc_ref(genomes[g], spec), set_rows[g], spec)

\* the content handed to the call in progress is at its source path, or at
\* the store path with a committed row
ContentKept ==
    \/ src_file = "present"
    \/ /\ frame.filename \in DOMAIN genome_files
       /\ genome_files[frame.filename] = "full"
       /\ frame.filename \in genome_rows

\* C28: store_genome of a path with keep_src=False never loses the source:
\* at every statement and after every failure the content is at the source
\* path or at the store path with a committed row; the source is removed
\* only where the commit succeeded, and a move is undone when it fails.
C28_SourceNeverLost ==
    (frame.pc # "none" /\ frame.kind = "path" /\ ~frame.keep_src) => ContentKept

\* the same at the end of a call only, and for failures that are Exceptions
SourceKeptAfterCall ==
    (frame.pc \in {"returned", "raised"} /\ frame.kind = "path" /\ ~frame.keep_src
        /\ (frame.pc = "raised" => ret.dtype # "KeyboardInterrupt"))
        => ContentKept

\* C29: each vector of the builder is stored under the genome it was
\* computed from: for one or two workers and every order in which they
\* finish, the result consumed in turn i is calc_ref of the i-th genome of
\* the list, and every file gen-<id>.npy with its row (has_counts = not
\* is_assembled) is the stored vector of genome <id>.
C29_VectorStoredUnderItsGenome ==
    /\ (call \in {"calc", "raise"} /\ ret # <<>>)
          => ret.vec = calc_ref(genomes[ret.genome_id], spec)
    /\ \A g \in DOMAIN set_rows :
          LET v == calc_ref(genomes[g], spec)
              row == KmerSetRow(v, g, ~genomes[g].is_assembled)
          IN  /\ set_rows[g] = row
              /\ g \in DOMAIN set_files
              /\ set_files[g] = format_store(format, v, row, spec)

\* the second worker finished the second genome before the first genome was
\* done, and both sets, of different vectors, were stored
C29_Witness ==
    /\ call = "return"
    /\ Len(workers) = 2
    /\ DOMAIN set_rows = {1, 2}
    /\ set_files[1] # set_files[2]

\* the versions from a up to b - 1, ascending
Ascending(a, b) == [i \in 1..(IF a < b THEN b - a ELSE 0) |-> a + i - 1]

\* what a call of upgrade has done so far: the scripts called are those of
\* the version read and the versions after it, in order, each once; the
\* stamp is the version of the last script that returned, plus one
UpgradeInOrder ==
    (upgrader.pc # "none" /\ upgrader.db_ver \in 1..CURRENT_DB_VERSION)
        => /\ upgrader.ran = Ascending(upgrader.db_ver, upgrader.db_ver + Len(upgrader.ran))
           /\ info_file.version =
                 upgrader.db_ver + Len(upgrader.ran)
                     - (IF upgrader.pc \in {"stamp", "raised"} /\ upgrader.ran # <<>> THEN 1 ELSE 0)
           /\ upgrader.pc = "returned"
                 => /\ upgrader.ran = Ascending(upgrader.db_ver, CURRENT_DB_VERSION)
                    /\ info_file.version = CURRENT_DB_VERSION

\* one step of upgrade: the stamp stays or goes up by one, to w + 1 only
\* when script w has returned; a script that raises leaves the stamp; once
\* upgrade has returned Database.open accepts the database
UpgradeStep ==
    info_file.version \in 1..CURRENT_DB_VERSION =>
    /\ info_file'.version \in {info_file.version, info_file.version + 1}
    /\ info_file'.version = info_file.version + 1
          => (upgrader.pc = "stamp" /\ upgrader.ran[Len(upgrader.ran)] = info_file.version)
    /\ upgrader'.pc = "raised" => UNCHANGED info_file
    /\ (upgrader.pc = "returned" /\ call' = "open") => ret'.raised = "none"

\* C30: upgrade on a database stamped v, 1 <= v <= CURRENT_DB_VERSION, runs
\* the scripts of v .. CURRENT_DB_VERSION - 1 in ascending order, each once,
\* and writes the stamp w + 1 only after script w returned; the stamp never
\* decreases and never skips a version; when script w raises the stamp
\* stays w, so that a later upgrade resumes at w; when upgrade returns the
\* stamp is CURRENT_DB_VERSION and Database.open accepts the database; for
\* v = CURRENT_DB_VERSION nothing is run or written.
C30_UpgradeStampsInOrder == []UpgradeInOrder /\ [][UpgradeStep]_vars

\* an upgrade of a database stamped 3 has run the scripts of 3 and 4 and
\* returned, and the database has been opened
C30_Witness ==
    /\ upgrader.pc = "returned"
    /\ upgrader.db_ver = 3
    /\ upgrader.ran = <<3, 4>>
    /\ call = "open"
    /\ db = "Database"
====
